---- MODULE Spec2Model ----
(***************************************************************************)
(* State-machine model of the recommendation backend (steam_recommend):    *)
(* the Redis feature store and result cache, the interaction endpoint and  *)
(* the recommendation pipeline orchestrator.  Every request is a process   *)
(* whose steps are the awaits of its handler, so that the states between   *)
(* two Redis commands of one handler are visible to the other requests.    *)
(***************************************************************************)
EXTENDS Integers, Sequences, FiniteSets, TLC

\* ------------------------------------------------------------------ bounds
NumItems == 3        \* catalogue size
CapItems == 4        \* longest candidate list given to a filter stage alone
DivLen == 7          \* longest candidate list given to the diversity controller
MaxSeqLen == 2       \* scaled-down value of settings.MAX_SEQUENCE_LENGTH
RecallBound == 3     \* scaled-down value of settings.RECALL_SIZE
MaxTopK == 2         \* largest top_k a caller asks for
MaxLimit == 3        \* largest limit a reader asks for
MaxCount == 12       \* largest interaction count fed to the selector

\* ------------------------------------------------- configuration (config.py)
MAX_SEQUENCE_LENGTH == MaxSeqLen
DEFAULT_MAX_LEN == MaxSeqLen
RECALL_SIZE == RecallBound
MIN_INTERACTION_FOR_CONTENT == 3
MIN_INTERACTION_FOR_EMBEDDING == 5
MAX_SAME_DEVELOPER == 2
MAX_SAME_GENRE == 3
diversity_window == 5

Users == {1}
Items == 1..NumItems
\* Request slots; each slot runs one operation.  Requests that run
\* concurrently take the slots of Pair.
Procs == {1, 2, 3}
Pair == {1, 2}
Algorithms == {"auto", "popularity", "embedding", "content", "other"}

\* ----------------------------------------------------------------- helpers
Min(a, b) == IF a < b THEN a ELSE b
Max(a, b) == IF a > b THEN a ELSE b
Range(s) == {s[i] : i \in 1..Len(s)}
Ids(c) == [i \in 1..Len(c) |-> c[i][1]]

\* Python s[:k]
PySlice(s, k) ==
  IF k >= 0 THEN SubSeq(s, 1, Min(k, Len(s)))
  ELSE SubSeq(s, 1, Max(Len(s) + k, 0))

\* Redis index normalisation shared by LRANGE, LTRIM and ZREVRANGE: a negative
\* index counts from the tail, stop is inclusive.
RedisRange(list, start, stop) ==
  LET n == Len(list)
      s == IF start < 0 THEN Max(n + start, 0) ELSE start
      e == Min(IF stop < 0 THEN n + stop ELSE stop, n - 1)
  IN  IF s > e THEN <<>> ELSE SubSeq(list, s + 1, e + 1)

LPush(list, x) == <<x>> \o list
LRange(list, start, stop) == RedisRange(list, start, stop)
LTrim(list, start, stop) == RedisRange(list, start, stop)

\* A sorted set is a function from its members to their scores.
ZEmpty == [i \in {} |-> 0]
ZBest(z) ==
  CHOOSE i \in DOMAIN z :
    \A j \in DOMAIN z : z[j] < z[i] \/ (z[j] = z[i] /\ j <= i)
RECURSIVE ZRanking(_)
ZRanking(z) ==
  IF DOMAIN z = {} THEN <<>>
  ELSE LET b == ZBest(z)
       IN  <<<<b, z[b]>>>> \o ZRanking([i \in DOMAIN z \ {b} |-> z[i]])
ZRevRange(z, start, stop) == RedisRange(ZRanking(z), start, stop)

\* ------------------------------------------------------------------- state
VARIABLES
  seq,       \* user_seq:{u}   Redis list, most recent first
  recCache,  \* rec_cache:{u}  cached recommendation ids, or absent
  popular,   \* popular_games  Redis sorted set
  dbCount,   \* rows of user_interactions per user
  hasEmb,    \* users with a cached embedding vector
  itemEmb,   \* item_emb:{model}  Redis hash: item -> the kind of value stored
  ann,       \* the FaissIndexManager: index, index_to_id, id_to_index
  disk,      \* the saved index file and its .mapping file
  weights,   \* rule_ranker.weights of the one RankingStrategy of the pipeline
  req,       \* the requests in flight: one record per slot
  call       \* a pure-function call under test and its result

annVars == <<itemEmb, ann, disk>>
vars == <<seq, recCache, popular, dbCount, hasEmb, annVars, weights, req, call>>
storeVars == <<seq, recCache, popular, dbCount, hasEmb, annVars, weights>>

Absent == [has |-> FALSE, ids |-> <<>>]
Present(ids) == [has |-> TRUE, ids |-> ids]

\* kwargs without diversity_strength
NoStrength == 0 - 1

Idle ==
  [kind |-> "none", pc |-> "idle", user |-> 0, item |-> 0, topK |-> 0,
   algorithm |-> "", limit |-> 0, newPop |-> <<>>, oldPop |-> <<>>,
   count |-> 0,
   recallAlg |-> "", cands |-> <<>>, status |-> "none", recs |-> <<>>,
   tag |-> "", from_cache |-> FALSE, trace |-> <<>>, fault |-> FALSE,
   ovl |-> FALSE, exit |-> "", force |-> FALSE, ok |-> FALSE,
   strategy |-> "", diversity_strength |-> NoStrength, scored |-> <<>>]

NoCall == [op |-> "none"]

InFlight(q) == req[q].pc \notin {"idle", "done"}
\* Slots are interchangeable: they are taken in order.
CanStart(p) ==
  /\ req[p].pc = "idle"
  /\ \A q \in Procs : q < p => req[q].pc # "idle"
\* One request at a time: the next starts when the last has answered.
CanStartAlone(p) == CanStart(p) /\ \A q \in Procs : ~InFlight(q)
\* Requests of user u that are running when another request of u starts.
Overlapping(u) == {q \in Procs : InFlight(q) /\ req[q].user = u}
MarkOverlap(u, p, r) ==
  [q \in Procs |->
     IF q = p THEN [r EXCEPT !.ovl = Overlapping(u) # {}]
     ELSE IF q \in Overlapping(u) THEN [req[q] EXCEPT !.ovl = TRUE]
     ELSE req[q]]
\* The locals of a handler end with it; what it answered stays.
Finish(p, r) ==
  req' = [req EXCEPT ![p] = [r EXCEPT !.pc = "done", !.cands = <<>>, !.count = 0]]
\* A store call may fail (Redis or the database is unreachable, times out);
\* a run has at most one failing call.
MayFail == \A q \in Procs : ~req[q].fault
Goto(p, r, pc) == req' = [req EXCEPT ![p] = [r EXCEPT !.pc = pc]]
Raise(p) ==
  /\ MayFail
  /\ Finish(p, [req[p] EXCEPT !.status = "raised", !.fault = TRUE,
                               !.exit = "raised"])

\* ---------------------------------------------------------- initial states
\* FaissIndexManager.__init__: no index, empty maps.  index_to_id is the
\* sequence of item ids by ordinal (ordinal k is position k + 1).
NoIndex == [built |-> FALSE, trained |-> FALSE, vecs |-> <<>>]
NewManager == [index |-> NoIndex, index_to_id |-> <<>>, id_to_index |-> <<>>]
NoFiles == [index |-> NoIndex, written |-> FALSE, mapping |-> [written |-> FALSE]]
\* Every item of the catalogue has a well-formed embedding in the hash.
AllEmbedded == [i \in Items |-> "ok"]

\* The ANN index takes no part: imported embeddings, a manager just made.
\* RuleBasedRanker.__init__, and the presets of _apply_ranking, in tenths
WeightsDefault == [recall_score |-> 5, genre_match |-> 3, rating_boost |-> 2]
WeightsQuality == [recall_score |-> 3, genre_match |-> 2, rating_boost |-> 5]
WeightsDiversity == [recall_score |-> 4, genre_match |-> 3, rating_boost |-> 3]
RankerInit == weights = WeightsDefault

AnnInit ==
  /\ itemEmb = AllEmbedded
  /\ ann = NewManager
  /\ disk = NoFiles

InitSeqs == {<<>>, <<1>>, <<2, 1>>}

\* The sequence contract is exercised on stores that differ in the sequences.
InitSeq ==
  /\ seq \in [Users -> InitSeqs]
  /\ recCache = [u \in Users |-> Absent]
  /\ popular = ZEmpty
  /\ dbCount = [u \in Users |-> 0]
  /\ hasEmb = {}
  /\ AnnInit
  /\ RankerInit
  /\ req = [p \in Procs |-> Idle]
  /\ call = NoCall

\* -------------------------------------------- FeatureStore.get_user_sequence
GetUserSequence(u, max_len) == LRange(seq[u], 0, max_len - 1)

\* A reader (GET /history?limit=..) is one LRANGE: it observes the list as it
\* is between the commands of the writers (stored: the list it read from).
GetSequence(u, limit) ==
  /\ call' = [op |-> "get_sequence", user |-> u, limit |-> limit,
              stored |-> seq[u], ret |-> GetUserSequence(u, limit)]
  /\ UNCHANGED <<storeVars, req>>

\* ------------------------------------------------ record_interaction (POST)
StartInteract(p, u, i, alone) ==
  /\ IF alone THEN CanStartAlone(p) ELSE CanStart(p)
  /\ req' = MarkOverlap(u, p, [Idle EXCEPT !.kind = "interact", !.pc = "db",
                                          !.user = u, !.item = i])
  /\ UNCHANGED <<storeVars, call>>

\* create_user_interaction: one more row, or the session raises
InteractDb(p) ==
  /\ req[p].kind = "interact" /\ req[p].pc = "db"
  /\ \/ /\ dbCount[req[p].user] < MaxCount
        /\ dbCount' = [dbCount EXCEPT ![req[p].user] = @ + 1]
        /\ Goto(p, req[p], "lpush")
     \/ /\ Raise(p)
        /\ UNCHANGED dbCount
  /\ UNCHANGED <<seq, recCache, popular, hasEmb, weights, annVars, call>>

\* update_user_sequence, first await: LPUSH
InteractLPush(p) ==
  /\ req[p].kind = "interact" /\ req[p].pc = "lpush"
  /\ \/ /\ seq' = [seq EXCEPT ![req[p].user] = LPush(@, req[p].item)]
        /\ Goto(p, req[p], "ltrim")
     \/ /\ Raise(p)
        /\ UNCHANGED seq
  /\ UNCHANGED <<recCache, popular, dbCount, hasEmb, weights, annVars, call>>

\* update_user_sequence, second await: LTRIM 0 MAX_SEQUENCE_LENGTH-1
TrimSequence(list) == LTrim(list, 0, MAX_SEQUENCE_LENGTH - 1)

InteractLTrim(p) ==
  /\ req[p].kind = "interact" /\ req[p].pc = "ltrim"
  /\ \/ /\ seq' = [seq EXCEPT ![req[p].user] = TrimSequence(@)]
        /\ Goto(p, req[p], "expire")
     \/ /\ Raise(p)
        /\ UNCHANGED seq
  /\ UNCHANGED <<recCache, popular, dbCount, hasEmb, weights, annVars, call>>

\* update_user_sequence, third await: EXPIRE (the 30 day TTL is restarted)
InteractExpire(p) ==
  /\ req[p].kind = "interact" /\ req[p].pc = "expire"
  /\ \/ Goto(p, req[p], "invalidate")
     \/ Raise(p)
  /\ UNCHANGED <<storeVars, call>>

\* Variant: the interaction handler that leaves the cached list in place.
KeepUserCache(cache, u) == cache

\* CacheManager.invalidate_user_cache: DEL rec_cache:{u} user_profile:{u}
InvalidateUserCache(cache, u) == [cache EXCEPT ![u] = Absent]

InteractInvalidate(p) ==
  /\ req[p].kind = "interact" /\ req[p].pc = "invalidate"
  /\ \/ /\ recCache' = InvalidateUserCache(recCache, req[p].user)
        /\ Finish(p, [req[p] EXCEPT !.status = "returned"])
     \/ /\ Raise(p)
        /\ UNCHANGED recCache
  /\ UNCHANGED <<seq, popular, dbCount, hasEmb, weights, annVars, call>>

Interact(p) ==
  \/ InteractDb(p)
  \/ InteractLPush(p)
  \/ InteractLTrim(p)
  \/ InteractExpire(p)
  \/ InteractInvalidate(p)

\* --------------------------------------------------------------- key expiry
\* The 3600 s TTL of a cached recommendation list runs out.
ExpireRecCache(u) ==
  /\ recCache[u].has
  /\ recCache' = [recCache EXCEPT ![u] = Absent]
  /\ UNCHANGED <<seq, popular, dbCount, hasEmb, weights, annVars, req, call>>

\* ------------------------------------------------------- cached game metadata
\* game_meta:{id}: the batch import has cached metadata for the items from 2
\* on; item 1 has none.  The cached dictionaries carry a developer and no
\* genres, metascore or release date.
HasMeta(i) == i >= 2
Developer(i) == "devA"
Genres(i) == {}

\* ------------------------------------------------------ RuleBasedRanker.rank
\* Scores are exact rationals kept as integers: a recall score r is the
\* integer r, a composite score is kept times 20 (weights are tenths, the
\* neutral rating 0.5 is a half), and the position penalty (1 - 0.1*i/n)
\* multiplies by (10n - i) over 10n.
FinalScore20(i, r, w) ==
  IF ~HasMeta(i) THEN 20 * r
  ELSE 2 * r * w.recall_score + 0 * w.genre_match + w.rating_boost

\* list.sort(key=score, reverse=True): stable, descending
RECURSIVE InsertDesc(_, _)
InsertDesc(sorted, x) ==
  IF sorted = <<>> THEN <<x>>
  ELSE IF Head(sorted)[2] >= x[2] THEN <<Head(sorted)>> \o InsertDesc(Tail(sorted), x)
  ELSE <<x>> \o sorted
RECURSIVE SortDesc(_)
SortDesc(c) ==
  IF c = <<>> THEN <<>>
  ELSE InsertDesc(SortDesc(SubSeq(c, 1, Len(c) - 1)), c[Len(c)])

PositionPenalty(c) ==
  [k \in 1..Len(c) |-> <<c[k][1], c[k][2] * (10 * Len(c) - (k - 1))>>]

\* _apply_ranking: update_weights with the preset of the strategy
Preset(strategy) ==
  IF strategy = "quality_focused" THEN WeightsQuality
  ELSE IF strategy = "diversity_focused" THEN WeightsDiversity
  ELSE WeightsDefault

\* _apply_diversity_control: the strength of the strategy unless the caller
\* gave one, in tenths
DiversityStrength(strategy, given) ==
  IF given # NoStrength THEN given
  ELSE IF strategy = "diversity_focused" THEN 8
  ELSE IF strategy = "quality_focused" THEN 2
  ELSE 5

RuleRank(c, w) ==
  IF c = <<>> THEN c
  ELSE SortDesc(PositionPenalty(SortDesc(
         [k \in 1..Len(c) |-> <<c[k][1], FinalScore20(c[k][1], c[k][2], w)>>])))

\* ----------------------------------------------------------- BusinessFilter
SelectSeq2(c, Keep(_)) ==
  LET F[k \in 0..Len(c)] ==
        IF k = 0 THEN <<>>
        ELSE IF Keep(c[k]) THEN Append(F[k - 1], c[k]) ELSE F[k - 1]
  IN  F[Len(c)]

\* Variant: a played-games filter that keeps every candidate.
KeepPlayedGames(c, played) == c


FilterPlayedGames(c, played) ==
  LET Keep(x) == x[1] \notin Range(played) IN SelectSeq2(c, Keep)

\* get_game_metadata answers None for an item without a cached dictionary
NoMeta ==
  [has |-> FALSE, developer |-> "", genres |-> {}, priced |-> FALSE,
   price |-> 0, mature |-> FALSE]

\* The cached dictionaries as the filter stages read them: developer, genres,
\* price (priced: the key is there) and mature (a tag of the list "mature",
\* "adult", "18+", "violence", "gore" is among the tags).
Catalogue ==
  [i \in Items |->
     IF HasMeta(i)
     THEN [has |-> TRUE, developer |-> Developer(i), genres |-> Genres(i),
           priced |-> FALSE, price |-> 0, mature |-> FALSE]
     ELSE NoMeta]

CountDev(kept, meta, d) ==
  Cardinality({k \in 1..Len(kept) :
                 meta[kept[k][1]].has /\ meta[kept[k][1]].developer = d})

\* Variant: a developer cap that admits while the count is at most the cap.
DeveloperCapInclusive(c, meta) ==
  LET F[k \in 0..Len(c)] ==
        IF k = 0 THEN <<>>
        ELSE IF ~meta[c[k][1]].has THEN Append(F[k - 1], c[k])
        ELSE IF CountDev(F[k - 1], meta, meta[c[k][1]].developer) <= MAX_SAME_DEVELOPER
             THEN Append(F[k - 1], c[k])
        ELSE F[k - 1]
  IN  F[Len(c)]

FilterByDeveloperDiversity(c, meta) ==
  LET F[k \in 0..Len(c)] ==
        IF k = 0 THEN <<>>
        ELSE IF ~meta[c[k][1]].has THEN Append(F[k - 1], c[k])
        ELSE IF CountDev(F[k - 1], meta, meta[c[k][1]].developer) < MAX_SAME_DEVELOPER
             THEN Append(F[k - 1], c[k])
        ELSE F[k - 1]
  IN  F[Len(c)]

CountGenre(kept, meta, g) ==
  Cardinality({k \in 1..Len(kept) :
                 meta[kept[k][1]].has /\ g \in meta[kept[k][1]].genres})

\* Variant: a genre cap that admits an item when one of its genres is below
\* the cap.
GenreCapAnyGenre(c, meta) ==
  LET F[k \in 0..Len(c)] ==
        IF k = 0 THEN <<>>
        ELSE IF ~meta[c[k][1]].has THEN Append(F[k - 1], c[k])
        ELSE IF \/ meta[c[k][1]].genres = {}
                \/ \E g \in meta[c[k][1]].genres :
                     CountGenre(F[k - 1], meta, g) < MAX_SAME_GENRE
             THEN Append(F[k - 1], c[k])
        ELSE F[k - 1]
  IN  F[Len(c)]

FilterByGenreDiversity(c, meta) ==
  LET F[k \in 0..Len(c)] ==
        IF k = 0 THEN <<>>
        ELSE IF ~meta[c[k][1]].has THEN Append(F[k - 1], c[k])
        ELSE IF \A g \in meta[c[k][1]].genres :
                  CountGenre(F[k - 1], meta, g) < MAX_SAME_GENRE
             THEN Append(F[k - 1], c[k])
        ELSE F[k - 1]
  IN  F[Len(c)]

\* No price_range argument: the price stage returns its input.
NoPriceRange == [given |-> FALSE, min |-> 0, max |-> 0]

\* _filter_by_price: an item without metadata or without a price is kept
FilterByPrice(c, meta, price_range) ==
  LET Keep(x) == \/ ~meta[x[1]].has
                 \/ ~meta[x[1]].priced
                 \/ /\ price_range.min <= meta[x[1]].price
                    /\ meta[x[1]].price <= price_range.max
  IN  IF ~price_range.given THEN c ELSE SelectSeq2(c, Keep)

\* _filter_by_age_rating: "if not user_age" takes no age and age 0 alike
FilterByAgeRating(c, meta, user_age) ==
  LET Keep(x) == ~(meta[x[1]].has /\ meta[x[1]].mature /\ user_age < 18)
  IN  IF user_age = 0 THEN c ELSE SelectSeq2(c, Keep)

\* Variant: a filter whose stages do not catch: the first stage that raises
\* reaches the except clause of filter, which answers with the candidates it
\* was given.
FilterAllOrNothing(c, played, meta, price_range, user_age, ok) ==
  IF c = <<>> THEN c
  ELSE IF ok.played /\ ok.developer /\ ok.genre /\ ok.price /\ ok.age
  THEN FilterByAgeRating(FilterByPrice(FilterByGenreDiversity(
         FilterByDeveloperDiversity(FilterPlayedGames(c, played), meta), meta),
         meta, price_range), meta, user_age)
  ELSE c

\* BusinessFilter.filter: the five stages in sequence, each with its own
\* try/except that returns the stage's input; ok names the stages whose reads
\* the store answers.
Filter(c, played, meta, price_range, user_age, ok) ==
  IF c = <<>> THEN c
  ELSE LET f1 == IF ok.played THEN FilterPlayedGames(c, played) ELSE c
           f2 == IF ok.developer THEN FilterByDeveloperDiversity(f1, meta) ELSE f1
           f3 == IF ok.genre THEN FilterByGenreDiversity(f2, meta) ELSE f2
           f4 == IF ok.price THEN FilterByPrice(f3, meta, price_range) ELSE f3
           f5 == IF ok.age THEN FilterByAgeRating(f4, meta, user_age) ELSE f4
       IN  f5

\* filter as the pipeline calls it: no price_range, no user_age; okSeq, okMeta:
\* the store answers the sequence read, the metadata reads.
BusinessFilter(c, played, okSeq, okMeta) ==
  Filter(c, played, Catalogue, NoPriceRange, 0,
         [played |-> okSeq, developer |-> okMeta, genre |-> okMeta,
          price |-> okMeta, age |-> okMeta])

\* -------------------------------------------------------- DiversityController
\* Scores are exact rationals kept as integers.  A candidate's score is kept
\* in halves, a diversity strength in tenths, and each of the four diversity
\* measures times 720 (their values are tenths and averages, over at most
\* four selected items, of Jaccard overlaps of genre sets of at most two
\* genres).  The code computes in floating point.
SumOver(S, f(_)) ==
  LET RECURSIVE Sum(_)
      Sum(T) == IF T = {} THEN 0
                ELSE LET x == CHOOSE y \in T : TRUE IN f(x) + Sum(T \ {x})
  IN  Sum(S)

\* 720 * (1 - average overlap); 0.5 for a candidate without genres
CalculateGenreDiversity(md, selected, meta) ==
  LET Overlap(j) ==
        LET g == meta[selected[j][1]].genres
        IN  IF g = {} THEN 0
            ELSE (720 * Cardinality(md.genres \cap g))
                   \div Cardinality(md.genres \cup g)
  IN  IF md.genres = {} THEN 360
      ELSE 720 - SumOver(1..Len(selected), Overlap) \div Len(selected)

\* 0 when a selected item has the candidate's developer, 1 when none has,
\* 0.5 for a candidate without developer
CalculateDeveloperDiversity(md, selected, meta) ==
  IF md.developer = "" THEN 360
  ELSE IF \E j \in 1..Len(selected) :
            meta[selected[j][1]].developer = md.developer THEN 0
  ELSE 720

PriceTier(price) ==
  IF price = 0 THEN "free" ELSE IF price < 20 THEN "budget"
  ELSE IF price < 40 THEN "mid" ELSE "premium"

\* 0.3 when a selected item is in the candidate's price tier
CalculatePriceDiversity(md, selected, meta) ==
  IF ~md.priced THEN 360
  ELSE IF \E j \in 1..Len(selected) :
            /\ meta[selected[j][1]].priced
            /\ PriceTier(meta[selected[j][1]].price) = PriceTier(md.price) THEN 216
  ELSE 720

Era(year) ==
  IF year >= 2020 THEN "recent" ELSE IF year >= 2015 THEN "modern"
  ELSE IF year >= 2010 THEN "classic" ELSE "retro"

\* 0.4 when a selected item is of the candidate's era
CalculateTemporalDiversity(md, selected, meta) ==
  IF ~md.dated THEN 360
  ELSE IF \E j \in 1..Len(selected) :
            /\ meta[selected[j][1]].dated
            /\ Era(meta[selected[j][1]].year) = Era(md.year) THEN 288
  ELSE 720

\* _calculate_diversity_score times 8 * 720: the weights 0.3, 0.2, 0.1, 0.2
\* over their sum 0.8
CalculateDiversityScore(x, selected, meta) ==
  LET md == meta[x[1]] IN
  3 * CalculateGenreDiversity(md, selected, meta)
    + 2 * CalculateDeveloperDiversity(md, selected, meta)
    + CalculatePriceDiversity(md, selected, meta)
    + 2 * CalculateTemporalDiversity(md, selected, meta)

\* Variant: a combined score that weighs relevance by the strength and
\* diversity by its complement.
CombinedSwapped(x, selected, meta, s10) ==
  s10 * x[2] * 5760 + (10 - s10) * 2 * CalculateDiversityScore(x, selected, meta)

\* (1 - strength) * score + strength * diversity, times 20 * 5760
CombinedScore(x, selected, meta, s10) ==
  (10 - s10) * x[2] * 5760 + s10 * 2 * CalculateDiversityScore(x, selected, meta)

\* best_score = -1 on the same scale
BestScoreStart == 0 - 20 * 5760

\* _rerank_for_diversity: the first candidate, then repeatedly the first of
\* the remaining candidates with the highest combined score, as long as that
\* score exceeds the initial best_score; otherwise the loop breaks and the
\* candidates still remaining are not returned.
RerankForDiversity(c, meta, s10) ==
  LET RECURSIVE Pick(_, _)
      Pick(selected, remaining) ==
        IF remaining = <<>> THEN selected
        ELSE LET Score(i) == CombinedScore(remaining[i], selected, meta, s10)
                 Eligible == {i \in 1..Len(remaining) : Score(i) > BestScoreStart}
             IN  IF Eligible = {} THEN selected
                 ELSE LET best == CHOOSE i \in Eligible :
                                    /\ \A j \in Eligible : Score(j) <= Score(i)
                                    /\ \A j \in 1..(i - 1) : Score(j) < Score(i)
                      IN  Pick(Append(selected, remaining[best]),
                               SubSeq(remaining, 1, best - 1)
                                 \o SubSeq(remaining, best + 1, Len(remaining)))
  IN  IF Len(c) <= 1 THEN c ELSE Pick(<<c[1]>>, Tail(c))

\* _diversify_recommendations: the window re-ranked, the rest appended
DiversifyRecommendations(c, meta, s10) ==
  IF Len(c) <= 1 THEN c
  ELSE RerankForDiversity(SubSeq(c, 1, Min(diversity_window, Len(c))), meta, s10)
         \o SubSeq(c, diversity_window + 1, Len(c))

\* Number of get_game_metadata calls of apply_diversity_control
\* (_enrich_with_metadata reads one dictionary per candidate)
DiversityReads(c) ==
  IF c = <<>> \/ Len(c) <= diversity_window THEN 0 ELSE Len(c)

\* Variant: diversity control that re-ranks lists of every length.
DiversifyShortLists(c, meta, s10, ok) ==
  IF c = <<>> THEN c
  ELSE IF ~ok THEN c
  ELSE DiversifyRecommendations(c, meta, s10)

\* DiversityController.apply_diversity_control; ok: the store answers the
\* metadata reads (the except clause returns the candidates)
ApplyDiversityControl(c, meta, s10, ok) ==
  IF c = <<>> \/ Len(c) <= diversity_window THEN c
  ELSE IF ~ok THEN c
  ELSE DiversifyRecommendations(c, meta, s10)

\* --------------------------------------------------------- recall strategies
GetPopularGames(limit) == ZRevRange(popular, 0, limit - 1)

PopularityRecall(pool, played, top_k) ==
  PySlice(FilterPlayedGames(pool, played), top_k)

\* Cosine similarity of the user's vector with an item's, times a constant:
\* the vectors come from the offline model, the model fixes them.
CosSim(i) == (3 * i) % 4

\* EmbeddingRecall._recall_legacy: the popularity pool scored by similarity.
\* recall() reaches it on every call: settings has no DYNAMIC_FUSION_ENABLED,
\* the attribute error is caught and the legacy path taken.
\* get_batch_item_embeddings keeps the pool items that have a stored vector,
\* in pool order; a vector of another length makes the dot product raise and
\* the except clause answers [].
RecallLegacy(pool, played, top_k) ==
  LET Stored(x) == x[1] \in DOMAIN itemEmb /\ itemEmb[x[1]] # "bad"
      unplayed == FilterPlayedGames(SelectSeq2(pool, Stored), played)
      scored == [k \in 1..Len(unplayed) |-> <<unplayed[k][1], CosSim(unplayed[k][1])>>]
  IN  IF \E k \in 1..Len(unplayed) : itemEmb[unplayed[k][1]] = "dim" THEN <<>>
      ELSE PySlice(SortDesc(scored), top_k)

\* ------------------------------------------ RecommendationPipeline.recommend
\* Variant of the selector whose thresholds are inclusive upper bounds.
SelectInclusive(algorithm, interaction_count) ==
  IF algorithm # "auto" THEN algorithm
  ELSE IF interaction_count <= MIN_INTERACTION_FOR_CONTENT THEN "popularity"
  ELSE IF interaction_count <= MIN_INTERACTION_FOR_EMBEDDING THEN "content"
  ELSE "embedding"

SelectRecallAlgorithm(algorithm, interaction_count) ==
  IF algorithm # "auto" THEN algorithm
  ELSE IF interaction_count < MIN_INTERACTION_FOR_CONTENT THEN "popularity"
  ELSE IF interaction_count < MIN_INTERACTION_FOR_EMBEDDING THEN "content"
  ELSE "embedding"

\* Variant: the empty result tagged "empty" whatever algorithm it is given.
EmptyTagged(r, algorithm) ==
  [r EXCEPT !.status = "returned", !.recs = <<>>, !.tag = "empty",
            !.from_cache = FALSE, !.exit = "empty"]

EmptyRecommendationResult(r, algorithm) ==
  [r EXCEPT !.status = "returned", !.recs = <<>>, !.tag = algorithm,
            !.from_cache = FALSE, !.exit = "empty"]

\* Variant: recommend without its try/except, the exception leaves it.
PropagateError(r) ==
  [r EXCEPT !.fault = TRUE, !.status = "raised", !.exit = "raised"]

\* except Exception: the orchestrator answers with the "error" result
ErrorResult(r) ==
  [EmptyRecommendationResult([r EXCEPT !.fault = TRUE], "error")
     EXCEPT !.exit = "error"]

Stage(r, name) == [r EXCEPT !.trace = Append(@, name)]

\* Variant: the result cache used in every mode.
UsesCacheAlways(algorithm) == TRUE

\* if algorithm == "auto": only the automatic mode uses the result cache
UsesCache(algorithm) == algorithm = "auto"

\* recommend(user_id, top_k, algorithm, ranking_strategy, **kwargs)
StartRecommendWith(p, u, k, a, ranking_strategy, diversity_strength, alone) ==
  /\ IF alone THEN CanStartAlone(p) ELSE CanStart(p)
  /\ req' = MarkOverlap(u, p,
       [Idle EXCEPT !.kind = "recommend", !.user = u, !.topK = k,
                    !.algorithm = a, !.strategy = ranking_strategy,
                    !.diversity_strength = diversity_strength,
                    !.pc = IF UsesCache(a) THEN "cache_check" ELSE "count"])
  /\ UNCHANGED <<storeVars, call>>

\* recommend with the default ranking strategy and no diversity strength
StartRecommend(p, u, k, a, alone) ==
  StartRecommendWith(p, u, k, a, "default", NoStrength, alone)

\* Variant: a cache hit that answers with the whole cached list.
CacheHitUnsliced(r, cached) ==
  [r EXCEPT !.status = "returned", !.recs = cached,
            !.tag = "cached", !.from_cache = TRUE, !.exit = "hit"]

\* 1. get_cached_recommendations (automatic mode only)
CacheHitResult(r, cached) ==
  [r EXCEPT !.status = "returned", !.recs = PySlice(cached, r.topK),
            !.tag = "cached", !.from_cache = TRUE, !.exit = "hit"]

\* Variant: a result cache that answers the default strategy only.
GetCachedForDefault(cache, r) ==
  IF r.strategy = "default" THEN cache[r.user] ELSE Absent

\* get_cached_recommendations: GET rec_cache:{user_id}, the key names the
\* user and nothing else of the request
GetCachedRecommendations(cache, r) == cache[r.user]

RecCacheCheck(p) ==
  LET r == Stage(req[p], "cache_read")
      c == GetCachedRecommendations(recCache, r)
  IN  /\ req[p].kind = "recommend" /\ req[p].pc = "cache_check"
      /\ \/ MayFail /\ Finish(p, ErrorResult(r))
         \/ /\ c.has /\ c.ids # <<>>
            /\ Finish(p, CacheHitResult(r, c.ids))
         \/ /\ ~(c.has /\ c.ids # <<>>)
            /\ Goto(p, r, "count")
      /\ UNCHANGED <<storeVars, call>>

\* 2./3. _get_user_interaction_count (0 when the query raises) and
\* _select_recall_algorithm
RecCount(p) ==
  /\ req[p].kind = "recommend" /\ req[p].pc = "count"
  /\ \E ok \in {TRUE, ~MayFail} :
       LET n == IF ok THEN dbCount[req[p].user] ELSE 0
           r == Stage([req[p] EXCEPT !.fault = @ \/ ~ok], "count")
       IN  Goto(p, [r EXCEPT !.count = n,
                             !.recallAlg = SelectRecallAlgorithm(r.algorithm, n)],
                "recall")
  /\ UNCHANGED <<storeVars, call>>

\* 4. _recall_stage, first read: the popularity pool (and, for embedding
\* recall, the user's vector).  Every exception inside a recall strategy is
\* caught there and answered with [].
RecRecall(p) ==
  LET r == Stage(req[p], "recall")
      emb == r.recallAlg = "embedding"
      pool == GetPopularGames(RECALL_SIZE * 2)
  IN  /\ req[p].kind = "recommend" /\ req[p].pc = "recall"
      /\ \/ /\ MayFail
            /\ Finish(p, EmptyRecommendationResult([r EXCEPT !.fault = TRUE], r.recallAlg))
         \/ /\ (emb /\ r.user \notin hasEmb) \/ pool = <<>>
            /\ Finish(p, EmptyRecommendationResult(r, r.recallAlg))
         \/ /\ ~(emb /\ r.user \notin hasEmb) /\ pool # <<>>
            /\ Goto(p, [r EXCEPT !.cands = pool], "recall_seq")
      /\ UNCHANGED <<storeVars, call>>

\* 4. _recall_stage, second read: the played games
RecRecallSeq(p) ==
  LET r == req[p]
      played == GetUserSequence(r.user, DEFAULT_MAX_LEN)
      c == IF r.recallAlg = "embedding"
           THEN RecallLegacy(r.cands, played, RECALL_SIZE)
           ELSE PopularityRecall(r.cands, played, RECALL_SIZE)
  IN  /\ req[p].kind = "recommend" /\ req[p].pc = "recall_seq"
      /\ \/ /\ MayFail
            /\ Finish(p, EmptyRecommendationResult([r EXCEPT !.fault = TRUE], r.recallAlg))
         \/ /\ c = <<>>
            /\ Finish(p, EmptyRecommendationResult(r, r.recallAlg))
         \/ /\ c # <<>>
            /\ Goto(p, [r EXCEPT !.cands = c], "rank")
      /\ UNCHANGED <<storeVars, call>>

\* 5. rank_and_filter, ranking: a failed metadata read leaves the candidates
\* as recalled
RecRank(p) ==
  /\ req[p].kind = "recommend" /\ req[p].pc = "rank"
  /\ weights' = Preset(req[p].strategy)
  /\ \E ok \in {TRUE, ~MayFail} :
       LET r == Stage([req[p] EXCEPT !.fault = @ \/ ~ok], "rank")
       IN  Goto(p, [r EXCEPT !.cands = IF ok THEN RuleRank(@, weights') ELSE @],
                "filter")
  /\ UNCHANGED <<seq, recCache, popular, dbCount, hasEmb, annVars, call>>

\* The ranking as the event loop runs it.  _apply_ranking writes the preset
\* into rule_ranker.weights and rank() suspends at its first await; the
\* pipeline, its RankingStrategy and its RuleBasedRanker are one object for
\* every request of the process.
RecRankWeights(p) ==
  /\ req[p].kind = "recommend" /\ req[p].pc = "rank"
  /\ weights' = Preset(req[p].strategy)
  /\ Goto(p, [Stage(req[p], "rank") EXCEPT !.scored = <<>>], "rank_score")
  /\ UNCHANGED <<seq, recCache, popular, dbCount, hasEmb, annVars, call>>

\* rank() resumes with the metadata of its next candidate and scores it with
\* self.weights as they are now; after the last candidate it sorts, applies
\* the position penalty and sorts again.  A failed read leaves the
\* candidates as recalled.
RecRankScore(p) ==
  LET r == req[p]
      k == Len(r.scored) + 1
      x == r.cands[k]
      s == Append(r.scored, <<x[1], FinalScore20(x[1], x[2], weights)>>)
  IN  /\ r.kind = "recommend" /\ r.pc = "rank_score"
      /\ \/ /\ k < Len(r.cands)
            /\ Goto(p, [r EXCEPT !.scored = s], "rank_score")
         \/ /\ k = Len(r.cands)
            /\ Goto(p, [r EXCEPT !.cands = SortDesc(PositionPenalty(SortDesc(s))),
                                 !.scored = <<>>], "filter")
         \/ /\ MayFail
            /\ Goto(p, [r EXCEPT !.fault = TRUE, !.scored = <<>>], "filter")
      /\ UNCHANGED <<storeVars, call>>

\* 5. rank_and_filter, business filter and diversity control, then [:top_k]
FinalResult(r, final) ==
  [r EXCEPT !.status = "returned", !.recs = Ids(final), !.tag = r.recallAlg,
            !.from_cache = FALSE, !.exit = "final"]

\* Variant: rank_and_filter that controls diversity before it filters.
RecDiversifyFirst(p) ==
  /\ req[p].kind = "recommend" /\ req[p].pc = "filter"
  /\ \E okSeq \in {TRUE, ~MayFail}, okMeta \in {TRUE, ~MayFail} :
       LET r == Stage(Stage([req[p] EXCEPT !.fault = @ \/ ~okSeq \/ ~okMeta],
                            "diversify"), "filter")
           played == GetUserSequence(r.user, DEFAULT_MAX_LEN)
           filtered == BusinessFilter(
                         ApplyDiversityControl(r.cands, Catalogue,
                           DiversityStrength(r.strategy, r.diversity_strength),
                           okMeta),
                         played, okSeq, okMeta)
           final == PySlice(filtered, r.topK)
       IN  IF UsesCache(r.algorithm) /\ final # <<>>
           THEN Goto(p, [r EXCEPT !.cands = final], "cache_write")
           ELSE Finish(p, FinalResult(r, final))
  /\ UNCHANGED <<storeVars, call>>

RecFilter(p) ==
  /\ req[p].kind = "recommend" /\ req[p].pc = "filter"
  /\ \E okSeq \in {TRUE, ~MayFail}, okMeta \in {TRUE, ~MayFail} :
       LET r == Stage(Stage([req[p] EXCEPT !.fault = @ \/ ~okSeq \/ ~okMeta],
                            "filter"), "diversify")
           played == GetUserSequence(r.user, DEFAULT_MAX_LEN)
           filtered == ApplyDiversityControl(
                         BusinessFilter(r.cands, played, okSeq, okMeta),
                         Catalogue,
                         DiversityStrength(r.strategy, r.diversity_strength),
                         okMeta)
           final == PySlice(filtered, r.topK)
       IN  IF UsesCache(r.algorithm) /\ final # <<>>
           THEN Goto(p, [r EXCEPT !.cands = final], "cache_write")
           ELSE Finish(p, FinalResult(r, final))
  /\ UNCHANGED <<storeVars, call>>

\* 8. cache_recommendations: SETEX rec_cache:{u} json(ids)
CacheRecommendations(cache, u, ids) == [cache EXCEPT ![u] = Present(ids)]

RecCacheWrite(p) ==
  LET r == Stage(req[p], "cache_write") IN
  /\ req[p].kind = "recommend" /\ req[p].pc = "cache_write"
  /\ \/ /\ recCache' = CacheRecommendations(recCache, r.user, Ids(r.cands))
        /\ Finish(p, FinalResult(r, r.cands))
     \/ /\ MayFail
        /\ Finish(p, ErrorResult(r))
        /\ UNCHANGED recCache
  /\ UNCHANGED <<seq, popular, dbCount, hasEmb, weights, annVars, call>>

Recommend(p) ==
  \/ RecCacheCheck(p)
  \/ RecCount(p)
  \/ RecRecall(p)
  \/ RecRecallSeq(p)
  \/ RecRank(p)
  \/ RecFilter(p)
  \/ RecCacheWrite(p)

\* ------------------------------------------------- the pipeline and its store
RankedPop == [i \in Items |-> IF i = 1 THEN 2 ELSE IF i = 2 THEN 1 ELSE i]
ReqAlgorithms == {"auto", "popularity", "embedding"}

Init ==
  /\ seq \in [Users -> {<<>>, <<1>>}]
  /\ recCache = [u \in Users |-> Absent]
  /\ popular \in {ZEmpty, RankedPop}
  /\ \E prof \in {<<2, {}>>, <<4, Users>>, <<5, {}>>} :
       /\ dbCount = [u \in Users |-> prof[1]]
       /\ hasEmb = prof[2]
  /\ AnnInit
  /\ RankerInit
  /\ req = [p \in Procs |-> Idle]
  /\ call = NoCall

Next ==
  \/ \E p \in Procs, u \in Users, k \in 1..MaxTopK, a \in ReqAlgorithms :
       StartRecommend(p, u, k, a, TRUE)
  \/ \E p \in Procs : Recommend(p)
  \/ \E p \in Procs, u \in Users, i \in Items : StartInteract(p, u, i, TRUE)
  \/ \E p \in Procs : Interact(p)
  \/ \E u \in Users : ExpireRecCache(u)

Spec == Init /\ [][Next]_vars

\* ------------------------------------ the feature store's sequence contract
NextSeq ==
  \/ \E p \in Pair, u \in Users, i \in Items : StartInteract(p, u, i, FALSE)
  \/ \E p \in Pair : Interact(p)
  \/ \E u \in Users, l \in 0..MaxLimit : GetSequence(u, l)

SpecSeq == InitSeq /\ [][NextSeq]_vars


\* ------------------------------- FeatureStore.update_popular_games (batch job)
\* zadd_data: the dictionary built from the list; a later pair of the same
\* game replaces an earlier one.
ZAddData(game_scores) ==
  [i \in {game_scores[k][1] : k \in 1..Len(game_scores)} |->
     LET last == CHOOSE k \in 1..Len(game_scores) :
                   /\ game_scores[k][1] = i
                   /\ \A j \in 1..Len(game_scores) : game_scores[j][1] = i => j <= k
     IN  game_scores[last][2]]

\* One refresh job runs at a time (compute_popular_games is one task).
StartSetPopularity(p, game_scores) ==
  /\ CanStartAlone(p)
  /\ req' = [req EXCEPT ![p] =
       [Idle EXCEPT !.kind = "set_popularity", !.pc = "delete",
                    !.newPop = game_scores, !.oldPop = ZRanking(popular)]]
  /\ UNCHANGED <<storeVars, call>>

\* await self.redis.delete(key)
SetPopDelete(p) ==
  /\ req[p].kind = "set_popularity" /\ req[p].pc = "delete"
  /\ \/ /\ popular' = ZEmpty
        /\ IF req[p].newPop # <<>>
           THEN Goto(p, req[p], "zadd")
           ELSE Finish(p, [req[p] EXCEPT !.status = "returned"])
     \/ /\ Raise(p)
        /\ UNCHANGED popular
  /\ UNCHANGED <<seq, recCache, dbCount, hasEmb, weights, annVars, call>>

\* await self.redis.zadd(key, zadd_data)
SetPopZAdd(p) ==
  /\ req[p].kind = "set_popularity" /\ req[p].pc = "zadd"
  /\ \/ /\ popular' = ZAddData(req[p].newPop)
        /\ Goto(p, req[p], "expire")
     \/ /\ Raise(p)
        /\ UNCHANGED popular
  /\ UNCHANGED <<seq, recCache, dbCount, hasEmb, weights, annVars, call>>

\* await self.redis.expire(key, 24 * 3600)
SetPopExpire(p) ==
  /\ req[p].kind = "set_popularity" /\ req[p].pc = "expire"
  /\ \/ Finish(p, [req[p] EXCEPT !.status = "returned"])
     \/ Raise(p)
  /\ UNCHANGED <<storeVars, call>>

SetPopularity(p) ==
  \/ SetPopDelete(p)
  \/ SetPopZAdd(p)
  \/ SetPopExpire(p)

\* FeatureStore.get_popular_games: a reader is one ZREVRANGE.
\* old, new: the rankings the refresh in progress replaces and installs (the
\* stored ranking when no refresh is in progress).
GetPopularity(limit) ==
  /\ call' = [op |-> "get_popularity", limit |-> limit,
              ret |-> GetPopularGames(limit),
              old |-> IF \E w \in Procs : InFlight(w)
                      THEN req[CHOOSE w \in Procs : InFlight(w)].oldPop
                      ELSE ZRanking(popular),
              new |-> IF \E w \in Procs : InFlight(w)
                      THEN ZRanking(ZAddData(
                             req[CHOOSE w \in Procs : InFlight(w)].newPop))
                      ELSE ZRanking(popular)]
  /\ UNCHANGED <<storeVars, req>>

NewPops ==
  {<<>>, <<<<1, 1>>>>, <<<<1, 1>>, <<2, 2>>>>, <<<<2, 1>>, <<3, 3>>, <<2, 2>>>>,
   <<<<3, 2>>, <<1, 2>>>>}

InitPops == {ZEmpty, RankedPop, ZAddData(<<<<3, 1>>>>)}

InitPop ==
  /\ seq = [u \in Users |-> <<>>]
  /\ recCache = [u \in Users |-> Absent]
  /\ popular \in InitPops
  /\ dbCount = [u \in Users |-> 0]
  /\ hasEmb = {}
  /\ AnnInit
  /\ RankerInit
  /\ req = [p \in Procs |-> Idle]
  /\ call = NoCall

NextPop ==
  \/ \E p \in Procs, g \in NewPops : StartSetPopularity(p, g)
  \/ \E p \in Procs : SetPopularity(p)
  \/ \E l \in 0..MaxLimit : GetPopularity(l)

SpecPop == InitPop /\ [][NextPop]_vars

\* ---------------------------------- _select_recall_algorithm as a function
ApplySelect ==
  /\ call.op = "select" /\ ~call.done
  /\ call' = [call EXCEPT !.done = TRUE,
                          !.ret = SelectRecallAlgorithm(call.algorithm, call.n)]
  /\ UNCHANGED <<storeVars, req>>

InitSelect ==
  /\ seq = [u \in Users |-> <<>>]
  /\ recCache = [u \in Users |-> Absent]
  /\ popular = ZEmpty
  /\ dbCount = [u \in Users |-> 0]
  /\ hasEmb = {}
  /\ AnnInit
  /\ RankerInit
  /\ req = [p \in Procs |-> Idle]
  /\ call \in [op : {"select"}, algorithm : Algorithms, n : 0..MaxCount,
               done : {FALSE}, ret : {""}]

SpecSelect == InitSelect /\ [][ApplySelect]_vars


\* ------------------------------------------------------- FaissIndexManager
RECURSIVE Ascending(_)
Ascending(S) ==
  IF S = {} THEN <<>>
  ELSE LET m == CHOOSE x \in S : \A y \in S : x <= y
       IN  <<m>> \o Ascending(S \ {m})

\* id_to_index of a list of item ids: item id -> ordinal
OrdinalOf(item_ids) ==
  [i \in Range(item_ids) |-> (CHOOSE k \in 1..Len(item_ids) : item_ids[k] = i) - 1]

\* _create_index: an empty index, not yet trained
CreateIndex == [built |-> TRUE, trained |-> FALSE, vecs |-> <<>>]

\* build_index after the snapshot all_embeddings has arrived: the values that
\* are arrays are stacked ("bad": not an array, skipped; "dim": an array whose
\* length is not EMBEDDING_DIM), the new index is assigned to self.index,
\* trained, filled, and then the maps are replaced.  Arrays of different
\* lengths make np.vstack raise; arrays of a length other than EMBEDDING_DIM
\* make training raise, after self.index was assigned.
BuildFromSnapshot(m, all_embeddings) ==
  LET item_ids == Ascending({i \in DOMAIN all_embeddings : all_embeddings[i] # "bad"})
      kinds == {all_embeddings[i] : i \in Range(item_ids)}
  IN  IF DOMAIN all_embeddings = {} THEN [mgr |-> m, ok |-> FALSE]
      ELSE IF item_ids = <<>> THEN [mgr |-> m, ok |-> FALSE]
      ELSE IF Cardinality(kinds) > 1 THEN [mgr |-> m, ok |-> FALSE]
      ELSE IF kinds = {"dim"}
           THEN [mgr |-> [m EXCEPT !.index = CreateIndex], ok |-> FALSE]
      ELSE [mgr |-> [index |-> [built |-> TRUE, trained |-> TRUE, vecs |-> item_ids],
                     index_to_id |-> item_ids,
                     id_to_index |-> OrdinalOf(item_ids)],
            ok |-> TRUE]

\* build_index up to its await: get_redis_client, the "already built" check.
\* Nothing between the call and redis.hgetall suspends, and nothing locks.
StartBuild(p, force_rebuild) ==
  LET r == [Idle EXCEPT !.kind = "build", !.force = force_rebuild] IN
  /\ CanStart(p)
  /\ \/ MayFail /\ Finish(p, [r EXCEPT !.status = "returned", !.fault = TRUE])
     \/ /\ ann.index.built /\ ~force_rebuild
        /\ Finish(p, [r EXCEPT !.status = "returned", !.ok = TRUE])
     \/ /\ ~(ann.index.built /\ ~force_rebuild)
        /\ Goto(p, r, "hgetall")
  /\ UNCHANGED <<storeVars, call>>

\* all_embeddings = await redis.hgetall(key), and the rest of build_index,
\* which runs without suspending
BuildFetch(p) ==
  /\ req[p].kind = "build" /\ req[p].pc = "hgetall"
  /\ \/ /\ MayFail
        /\ Finish(p, [req[p] EXCEPT !.status = "returned", !.fault = TRUE])
        /\ UNCHANGED ann
     \/ LET b == BuildFromSnapshot(ann, itemEmb) IN
        /\ ann' = b.mgr
        /\ Finish(p, [Stage(req[p], IF b.ok THEN "built" ELSE "failed")
                         EXCEPT !.status = "returned", !.ok = b.ok])
  /\ UNCHANGED <<seq, recCache, popular, dbCount, hasEmb, weights, itemEmb, disk, call>>

\* cache_embeddings: HSET of every given item (the other fields stay)
CacheEmbeddings(item_embeddings) ==
  /\ itemEmb' = [i \in DOMAIN itemEmb \cup DOMAIN item_embeddings |->
                   IF i \in DOMAIN item_embeddings THEN item_embeddings[i]
                   ELSE itemEmb[i]]
  /\ itemEmb' # itemEmb
  /\ UNCHANGED <<seq, recCache, popular, dbCount, hasEmb, weights, ann, disk, req, call>>

\* index.search(query, search_k): the ordinals of the nearest vectors, best
\* first, filled up with -1; an index that is not trained raises.
IndexSearch(index, search_k) ==
  LET n == Len(index.vecs)
      scored == SortDesc([k \in 1..n |-> <<k - 1, CosSim(index.vecs[k])>>])
  IN  [k \in 1..search_k |-> IF k <= n THEN scored[k] ELSE <<-1, 0>>]

RECURSIVE SearchScan(_, _, _, _, _, _)
SearchScan(raw, k, index_to_id, exclude_ids, top_k, results) ==
  IF k > Len(raw) THEN results
  ELSE LET idx == raw[k][1]
           next(acc) == SearchScan(raw, k + 1, index_to_id, exclude_ids, top_k, acc)
       IN  IF idx < 0 THEN next(results)
           ELSE IF idx + 1 \notin DOMAIN index_to_id THEN next(results)
           ELSE IF exclude_ids # <<>> /\ index_to_id[idx + 1] \in Range(exclude_ids)
                THEN next(results)
           ELSE LET acc == Append(results, <<index_to_id[idx + 1], raw[k][2]>>)
                IN  IF Len(acc) >= top_k THEN acc ELSE next(acc)

\* Variant: a search that ignores the exclusion list.
FaissSearchKeepsExcluded(m, top_k, exclude_ids, raises) ==
  IF ~m.index.built THEN <<>>
  ELSE IF raises \/ ~m.index.trained THEN <<>>
  ELSE LET search_k == IF exclude_ids # <<>> THEN top_k * 2 ELSE top_k
       IN  SearchScan(IndexSearch(m.index, search_k), 1, m.index_to_id,
                      <<>>, top_k, <<>>)

\* FaissIndexManager.search; raises: the underlying search raises
FaissSearch(m, top_k, exclude_ids, raises) ==
  IF ~m.index.built THEN <<>>
  ELSE IF raises \/ ~m.index.trained THEN <<>>
  ELSE LET search_k == IF exclude_ids # <<>> THEN top_k * 2 ELSE top_k
       IN  SearchScan(IndexSearch(m.index, search_k), 1, m.index_to_id,
                      exclude_ids, top_k, <<>>)

\* A search is synchronous: it runs between the steps of the builds
\* (rebuilt: a build of this manager has built an index before).
Search(top_k, exclude_ids) ==
  /\ call' = [op |-> "search", top_k |-> top_k, exclude_ids |-> exclude_ids,
              index |-> ann.index, index_to_id |-> ann.index_to_id,
              rebuilt |-> \E p \in Procs : req[p].trace = <<"built">>,
              ret |-> FaissSearch(ann, top_k, exclude_ids, FALSE)]
  /\ UNCHANGED <<storeVars, req>>

\* save_index: the index file, then the .mapping file; either write may raise
SaveIndex(raised) ==
  /\ ann.index.built \/ raised = "none"
  /\ disk' = IF ~ann.index.built \/ raised = "index" THEN disk
             ELSE IF raised = "mapping"
                  THEN [disk EXCEPT !.index = ann.index, !.written = TRUE]
             ELSE [index |-> ann.index, written |-> TRUE,
                   mapping |-> [written |-> TRUE,
                                index_to_id |-> ann.index_to_id,
                                id_to_index |-> ann.id_to_index]]
  /\ call' = [op |-> "save_index", ret |-> ann.index.built /\ raised = "none"]
  /\ UNCHANGED <<seq, recCache, popular, dbCount, hasEmb, weights, itemEmb, ann, req>>

\* load_index: self.index = read_index(file), then the maps from the
\* .mapping file; a missing file raises at its read
LoadIndex ==
  LET m == IF ~disk.written THEN ann
           ELSE IF ~disk.mapping.written THEN [ann EXCEPT !.index = disk.index]
           ELSE [index |-> disk.index,
                 index_to_id |-> disk.mapping.index_to_id,
                 id_to_index |-> disk.mapping.id_to_index]
  IN  /\ ann' = m
      /\ call' = [op |-> "load_index", before |-> ann, after |-> m,
                  ret |-> disk.written /\ disk.mapping.written]
      /\ UNCHANGED <<seq, recCache, popular, dbCount, hasEmb, weights, itemEmb, disk, req>>

Excludes == {<<>>, <<1>>, <<2, 1>>}
\* What an import writes: the model's vectors, of the configured length or not
Imports ==
  {[i \in {1, 2} |-> "ok"], AllEmbedded, [i \in Items |-> "dim"]}

InitFaiss ==
  /\ seq = [u \in Users |-> <<>>]
  /\ recCache = [u \in Users |-> Absent]
  /\ popular = ZEmpty
  /\ dbCount = [u \in Users |-> 0]
  /\ hasEmb = {}
  /\ itemEmb \in {<<>>, AllEmbedded, [i \in {1} |-> "bad"]}
  /\ ann = NewManager
  /\ disk = NoFiles
  /\ RankerInit
  /\ req = [p \in Procs |-> Idle]
  /\ call = NoCall

NextFaiss ==
  \/ \E p \in Pair, f \in BOOLEAN : StartBuild(p, f)
  \/ \E p \in Pair : BuildFetch(p)
  \/ \E e \in Imports : CacheEmbeddings(e)
  \/ \E k \in 1..MaxTopK, x \in Excludes : Search(k, x)
  \/ \E w \in {"none", "index", "mapping"} : SaveIndex(w)
  \/ LoadIndex

SpecFaiss == InitFaiss /\ [][NextFaiss]_vars

\* ------------------------------------- FaissIndexManager.search as a function
\* The managers a search can meet: none built, built over a part or the whole
\* of the catalogue, a loaded index with the maps of a smaller build, a new
\* index that failed in training.
Built(e) == BuildFromSnapshot(NewManager, e).mgr
Managers ==
  {NewManager, Built([i \in {1, 2} |-> "ok"]), Built(AllEmbedded),
   [Built([i \in {1, 2} |-> "ok"]) EXCEPT !.index = Built(AllEmbedded).index],
   [Built(AllEmbedded) EXCEPT !.index = CreateIndex]}

ApplySearch ==
  /\ call.op = "search_fn" /\ ~call.done
  /\ call' = [call EXCEPT !.done = TRUE,
                          !.ret = FaissSearch(call.m, call.top_k,
                                              call.exclude_ids, call.raises)]
  /\ UNCHANGED <<storeVars, req>>

InitSearch ==
  /\ seq = [u \in Users |-> <<>>]
  /\ recCache = [u \in Users |-> Absent]
  /\ popular = ZEmpty
  /\ dbCount = [u \in Users |-> 0]
  /\ hasEmb = {}
  /\ AnnInit
  /\ RankerInit
  /\ req = [p \in Procs |-> Idle]
  /\ call \in [op : {"search_fn"}, m : Managers, top_k : 1..MaxTopK,
               exclude_ids : Excludes \cup {<<3>>}, raises : BOOLEAN,
               done : {FALSE}, ret : {<<>>}]

SpecSearch == InitSearch /\ [][ApplySearch]_vars

\* ============================================================== properties
IsPrefix(a, b) == Len(a) <= Len(b) /\ a = SubSeq(b, 1, Len(a))

C8_NeverLonger == \A u \in Users : Len(seq[u]) <= MAX_SEQUENCE_LENGTH

\* C9: for every limit >= 0, getSequence(user, limit) returns a prefix of the
\* stored sequence of length at most limit.
C9_PrefixWithinLimit ==
  call.op = "get_sequence" =>
    /\ IsPrefix(call.ret, call.stored)
    /\ Len(call.ret) <= call.limit

\* C10: while one setPopularity(new) replaces a non-empty ranking by a
\* non-empty ranking, every getPopularity returns a prefix of the complete old
\* or of the complete new ranking, and never an empty ranking.
C10_OldOrNew ==
  (call.op = "get_popularity" /\ call.old # <<>> /\ call.new # <<>>) =>
    /\ IsPrefix(call.ret, call.old) \/ IsPrefix(call.ret, call.new)
    /\ call.ret # <<>>


StageNames(p) == {req[p].trace[k] : k \in 1..Len(req[p].trace)}
Recommended(p) == req[p].kind = "recommend" /\ req[p].pc = "done"
NoFault == \A q \in Procs : ~req[q].fault

\* C1: recommend never propagates an exception of the result cache, the
\* interaction count, recall or rank/filter/diversify: it always returns a
\* well-formed response, and when an exception reaches the orchestrator the
\* response has an empty list and the algorithm tag "error".
C1_NeverPropagates ==
  \A p \in Procs :
    Recommended(p) =>
      /\ req[p].status = "returned"
      /\ req[p].exit \in {"hit", "empty", "error", "final"}
      /\ req[p].tag \in {"cached", "error", req[p].recallAlg}
      /\ req[p].exit = "error" =>
           req[p].recs = <<>> /\ req[p].tag = "error" /\ ~req[p].from_cache

C1_Witness ==
  \E p \in Procs :
    /\ Recommended(p) /\ req[p].fault /\ req[p].exit = "error"
    /\ req[p].trace[Len(req[p].trace)] = "cache_write"

\* C2: a recommend with an explicit algorithm neither reads nor writes the
\* result cache, whatever the cache holds: from_cache is false and the
\* user's cache entry is as it was.
C2_Step(p) ==
  (req'[p] # req[p] /\ req'[p].kind = "recommend"
     /\ req'[p].algorithm # "auto") =>
    /\ recCache' = recCache
    /\ StageNames(p)' \cap {"cache_read", "cache_write"} = {}
    /\ ~req'[p].from_cache

C2_ExplicitBypassesCache == [][\A p \in Procs : C2_Step(p)]_vars

C2_Witness ==
  \E p \in Procs :
    /\ Recommended(p) /\ req[p].algorithm = "popularity"
    /\ req[p].exit = "final" /\ req[p].recs # <<>>
    /\ recCache[req[p].user].has
    /\ recCache[req[p].user].ids # req[p].recs

Writers(u, p) ==
  {q \in Procs : /\ q < p /\ Recommended(q) /\ req[q].user = u
                 /\ req[q].algorithm = "auto" /\ req[q].exit = "final"
                 /\ req[q].recs # <<>>}
LastWriter(u, p) == CHOOSE q \in Writers(u, p) : \A w \in Writers(u, p) : w <= q

\* C5: after an automatic-mode miss computed a non-empty list L the cache
\* holds the ids of L in order, and a later automatic-mode recommend(topK')
\* with no invalidation or expiry in between returns the first topK' ids of L
\* with from_cache true and runs no recall, rank, filter or diversify stage.
C5_CacheServesPrefix ==
  /\ \A u \in Users :
       recCache[u].has =>
         /\ Writers(u, Cardinality(Procs) + 1) # {}
         /\ recCache[u].ids = req[LastWriter(u, 4)].recs
  /\ \A p \in Procs :
       (Recommended(p) /\ req[p].exit = "hit") =>
         /\ Writers(req[p].user, p) # {}
         /\ LET L == req[LastWriter(req[p].user, p)].recs
            IN  req[p].recs = SubSeq(L, 1, Min(req[p].topK, Len(L)))
         /\ req[p].from_cache
         /\ req[p].trace = <<"cache_read">>

C5_Witness ==
  \E p \in Procs :
    /\ Recommended(p) /\ req[p].exit = "hit" /\ req[p].topK = 1
    /\ Len(req[LastWriter(req[p].user, p)].recs) = 2
    /\ Len(req[p].recs) = 1

\* C6: when onInteraction(user, item) has completed the item is at the head
\* of the user's sequence and the user's cached list is absent, so the next
\* automatic-mode recommend of the user misses the cache and recomputes.
C6_Step(p) ==
  /\ (req[p].kind = "interact" /\ req[p].pc # "done" /\ req'[p].pc = "done"
        /\ req'[p].status = "returned") =>
       /\ seq'[req[p].user] # <<>>
       /\ Head(seq'[req[p].user]) = req[p].item
       /\ ~recCache'[req[p].user].has
  /\ (p > 1 /\ req[p].pc = "cache_check" /\ req'[p] # req[p]
        /\ req[p - 1].kind = "interact" /\ req[p - 1].status = "returned"
        /\ req[p - 1].user = req[p].user) =>
       /\ req'[p].exit # "hit"
       /\ ~req'[p].fault => req'[p].pc = "count"

C6_InteractionInvalidates == [][\A p \in Procs : C6_Step(p)]_vars

C6_Witness ==
  /\ Writers(1, 2) = {1}
  /\ req[2].kind = "interact" /\ req[2].status = "returned" /\ req[2].user = 1
  /\ Recommended(3) /\ req[3].user = 1 /\ req[3].algorithm = "auto"
  /\ req[3].exit = "final" /\ req[3].trace[1] = "cache_read"
  /\ req[2].item \notin Range(req[3].recs)

\* C7: when the operations on a user do not overlap and no store call fails,
\* the list recommend returns holds no item of the user's interaction
\* sequence as it is at the call, also when it is served from the cache.
C7_Step(p) ==
  (req[p].kind = "recommend" /\ req[p].pc # "done" /\ req'[p].pc = "done"
     /\ NoFault') =>
    Range(req'[p].recs) \cap Range(seq[req[p].user]) = {}

C7_NoPlayedItem == [][\A p \in Procs : C7_Step(p)]_vars

C7_Witness ==
  /\ NoFault
  /\ req[1].kind = "interact" /\ req[1].status = "returned"
  /\ Writers(1, 3) = {2}
  /\ Recommended(3) /\ req[3].exit = "hit" /\ req[3].recs # <<>>
  /\ seq[1] # <<>> /\ Len(seq[1]) = MAX_SEQUENCE_LENGTH


\* A ready index with the maps of its own build.
Consistent(m) ==
  m.index.built /\ m.index.trained /\ m.index.vecs = m.index_to_id

\* C11: for one index manager at most one build is in progress at any time,
\* the two builds launched at application startup included.
C11_OneBuildAtATime ==
  Cardinality({p \in Procs : req[p].kind = "build" /\ InFlight(p)}) <= 1

\* C12: when build returns failure on a manager that held a ready index, the
\* manager still holds the same index and the same maps as before.
C12_Step(p) ==
  (req[p].kind = "build" /\ req[p].pc # "done" /\ req'[p].pc = "done"
     /\ ~req'[p].ok /\ Consistent(ann)) =>
    ann' = ann

C12_FailureKeepsIndex == [][\A p \in Procs : C12_Step(p)]_vars

\* C13: every search that interleaves with a rebuild is computed from an
\* index and a map of one completed build, never from a new or partly filled
\* index with the old map.
C13_OnePair ==
  (call.op = "search" /\ call.rebuilt) =>
    /\ call.index.built /\ call.index.trained
    /\ call.index.vecs = call.index_to_id

\* C14: when restore fails because the map is missing or unreadable, the
\* manager does not hold the newly loaded index with maps of another state.
C14_RestoreIsOneUnit ==
  (call.op = "load_index" /\ ~call.ret) =>
    \/ call.after.index = call.before.index
    \/ call.after.index.vecs = call.after.index_to_id


\* ----------------------------------------------- EmbeddingRecall.recall, whole
\* _ensure_index_initialized: build_index(force_rebuild=False) unless an
\* earlier call succeeded; build_index answers True for any index that is not
\* None.
EnsureIndexInitialized(index_initialized, m) ==
  IF index_initialized \/ m.index.built THEN [mgr |-> m, ok |-> TRUE]
  ELSE BuildFromSnapshot(m, itemEmb)

\* recall(user_id, top_k, exclude_played=True, use_dynamic_fusion): settings
\* has no DYNAMIC_FUSION_ENABLED, so with use_dynamic_fusion the first
\* statement raises AttributeError and the except clause takes the legacy
\* path.  search() catches what the index raises and answers [], which recall
\* returns as its candidates.
EmbeddingRecall(u, top_k, use_dynamic_fusion, index_initialized, raises) ==
  LET played == GetUserSequence(u, DEFAULT_MAX_LEN)
      legacy == IF u \notin hasEmb THEN <<>>
                ELSE RecallLegacy(GetPopularGames(top_k * 2), played, top_k)
      e == EnsureIndexInitialized(index_initialized, ann)
  IN  IF use_dynamic_fusion
        THEN [path |-> "legacy", ret |-> legacy, mgr |-> ann, ready |-> FALSE]
      ELSE IF u \notin hasEmb
        THEN [path |-> "none", ret |-> <<>>, mgr |-> ann, ready |-> FALSE]
      ELSE IF ~e.ok
        THEN [path |-> "legacy", ret |-> legacy, mgr |-> e.mgr, ready |-> FALSE]
      ELSE [path |-> "faiss", ret |-> FaissSearch(e.mgr, top_k, played, raises),
            mgr |-> e.mgr, ready |-> TRUE]

ApplyRecall ==
  LET c == call
      r == EmbeddingRecall(c.user, c.top_k, c.use_dynamic_fusion,
                           c.index_initialized, c.raises)
  IN  /\ call.op = "recall_fn" /\ ~call.done
      /\ ann' = r.mgr
      /\ call' = [c EXCEPT !.done = TRUE, !.path = r.path, !.ret = r.ret,
                           !.ready = r.ready, !.before = ann,
                           !.legacy = RecallLegacy(GetPopularGames(c.top_k * 2),
                                        GetUserSequence(c.user, DEFAULT_MAX_LEN),
                                        c.top_k)]
      /\ UNCHANGED <<seq, recCache, popular, dbCount, hasEmb, weights, itemEmb, disk, req>>

InitEmbRecall ==
  /\ seq \in [Users -> Excludes]
  /\ recCache = [u \in Users |-> Absent]
  /\ popular \in InitPops
  /\ dbCount = [u \in Users |-> 0]
  /\ hasEmb \in SUBSET Users
  /\ itemEmb \in {<<>>, [i \in {1, 2} |-> "ok"], AllEmbedded}
  /\ ann \in Managers
  /\ disk = NoFiles
  /\ RankerInit
  /\ req = [p \in Procs |-> Idle]
  /\ call \in [op : {"recall_fn"}, user : Users, top_k : 1..MaxTopK,
               use_dynamic_fusion : BOOLEAN, index_initialized : BOOLEAN,
               raises : BOOLEAN, done : {FALSE}, path : {""}, ret : {<<>>},
               ready : {FALSE}, before : {NewManager}, legacy : {<<>>}]
  /\ call.index_initialized => ann.index.built

SpecEmbRecall == InitEmbRecall /\ [][ApplyRecall]_vars

\* ------------------------------------------- the filter stages as functions
\* Candidate lists: items 1..n in ranked order, scores descending.
CapIds == 1..CapItems
CapLists == {[k \in 1..n |-> <<k, CapItems - k + 1>>] : n \in 0..CapItems}

\* Dictionaries cache_game_metadata stores: scripts/load_sample_data.py writes
\* a developer, a list of distinct genres, a price and tags; the stages read
\* an absent key through metadata.get, as no genre, no price, no tag.
DevA(g, pr, m) ==
  [has |-> TRUE, developer |-> "devA", genres |-> g, priced |-> TRUE,
   price |-> pr, mature |-> m]
DevB(g, pr, m) ==
  [has |-> TRUE, developer |-> "devB", genres |-> g, priced |-> TRUE,
   price |-> pr, mature |-> m]
MetaKinds ==
  {NoMeta, DevA({"g1"}, 1, FALSE), DevA({"g1", "g2"}, 3, TRUE),
   DevB({"g1"}, 1, FALSE), DevB({"g2"}, 3, FALSE),
   [DevA({}, 0, FALSE) EXCEPT !.priced = FALSE]}
FilterKinds == {NoMeta, DevA({"g1"}, 1, TRUE), DevB({"g1"}, 3, FALSE)}

ApplyDeveloperCap ==
  /\ call.op = "developer" /\ ~call.done
  /\ call' = [call EXCEPT !.done = TRUE,
                          !.ret = FilterByDeveloperDiversity(call.c, call.meta)]
  /\ UNCHANGED <<storeVars, req>>

ApplyGenreCap ==
  /\ call.op = "genre" /\ ~call.done
  /\ call' = [call EXCEPT !.done = TRUE,
                          !.ret = FilterByGenreDiversity(call.c, call.meta)]
  /\ UNCHANGED <<storeVars, req>>

StoreAtRest ==
  /\ seq = [u \in Users |-> <<>>]
  /\ recCache = [u \in Users |-> Absent]
  /\ popular = ZEmpty
  /\ dbCount = [u \in Users |-> 0]
  /\ hasEmb = {}
  /\ AnnInit
  /\ RankerInit
  /\ req = [p \in Procs |-> Idle]

InitCaps ==
  /\ StoreAtRest
  /\ call \in [op : {"developer", "genre"}, c : CapLists,
               meta : [CapIds -> MetaKinds], done : {FALSE}, ret : {<<>>}]

NextCaps == ApplyDeveloperCap \/ ApplyGenreCap

SpecCaps == InitCaps /\ [][NextCaps]_vars

Stages == {"played", "developer", "genre", "price", "age"}

ApplyFilter ==
  /\ call.op = "filter" /\ ~call.done
  /\ call' = [call EXCEPT !.done = TRUE,
                          !.ret = Filter(call.c, call.played, call.meta,
                                         call.price_range, call.user_age,
                                         call.ok)]
  /\ UNCHANGED <<storeVars, req>>

InitFilter ==
  /\ StoreAtRest
  /\ call \in [op : {"filter"}, c : CapLists, meta : [CapIds -> FilterKinds],
               played : {<<>>, <<1>>},
               price_range : {NoPriceRange, [given |-> TRUE, min |-> 1, max |-> 2]},
               user_age : {0, 16}, ok : [Stages -> BOOLEAN],
               done : {FALSE}, ret : {<<>>}]

SpecFilter == InitFilter /\ [][ApplyFilter]_vars

\* ------------------------------------- apply_diversity_control as a function
\* Dictionaries of the window items: developer, genres, price, release year;
\* get_game_metadata answers None for the last kind and for the items past
\* the window.
DivMeta(dev, g, pr, yr) ==
  [has |-> TRUE, developer |-> dev, genres |-> g, priced |-> TRUE, price |-> pr,
   dated |-> TRUE, year |-> yr]
NoDivMeta ==
  [has |-> FALSE, developer |-> "", genres |-> {}, priced |-> FALSE, price |-> 0,
   dated |-> FALSE, year |-> 0]
DivKinds ==
  {DivMeta("devA", {"g1"}, 10, 2021), DivMeta("devA", {"g1", "g2"}, 30, 2016),
   DivMeta("devB", {"g1"}, 10, 2021), NoDivMeta}

\* Scores by position, in halves: descending, all equal, all -1.0,
\* descending with ties, not sorted.
ScoreProfiles ==
  {[k \in 1..DivLen |-> 3 - k], [k \in 1..DivLen |-> 1],
   [k \in 1..DivLen |-> 0 - 2], [k \in 1..DivLen |-> 2 - ((k - 1) \div 2)],
   [k \in 1..DivLen |-> k % 3]}

\* The strengths _apply_diversity_control passes (0.2, 0.5, 0.8) and the ends
\* of the range a caller may give
Strengths == {0, 2, 5, 8, 10}

DivCandidates(n, scores) == [k \in 1..n |-> <<k, scores[k]>>]
DivMetaOf(window) ==
  [i \in 1..DivLen |-> IF i \in DOMAIN window THEN window[i] ELSE NoDivMeta]

ApplyDiversity ==
  /\ call.op = "diversify" /\ ~call.done
  /\ call' = [call EXCEPT !.done = TRUE,
                          !.reads = DiversityReads(call.c),
                          !.ret = ApplyDiversityControl(call.c, call.meta,
                                                        call.s10, call.ok)]
  /\ UNCHANGED <<storeVars, req>>

InitDiversity ==
  /\ StoreAtRest
  /\ \E n \in 0..DivLen, scores \in ScoreProfiles,
        window \in [1..diversity_window -> DivKinds], s10 \in Strengths,
        ok \in BOOLEAN :
        call = [op |-> "diversify", c |-> DivCandidates(n, scores),
                meta |-> DivMetaOf(window), s10 |-> s10, ok |-> ok,
                done |-> FALSE, reads |-> 0, ret |-> <<>>]

SpecDiversity == InitDiversity /\ [][ApplyDiversity]_vars

\* ------------------------------------------------ the stages called directly
\* Store reads of a stage.  rank: the user's last 20 games, the metadata of
\* each of them, the metadata of each candidate.
\* Variant: a ranker that reads the user's preferences before it looks at
\* the candidates.
RankReadsUnguarded(c, u) == 1 + Len(GetUserSequence(u, 20)) + Len(c)

RankReads(c, u) ==
  IF c = <<>> THEN 0 ELSE 1 + Len(GetUserSequence(u, 20)) + Len(c)

\* filter without price_range and user_age: the played games, then one
\* dictionary per candidate of the developer stage and of the genre stage
FilterReads(c, u) ==
  IF c = <<>> THEN 0
  ELSE LET f1 == FilterPlayedGames(c, GetUserSequence(u, DEFAULT_MAX_LEN))
           f2 == FilterByDeveloperDiversity(f1, Catalogue)
       IN  1 + Len(f1) + Len(f2)

\* rank_and_filter: rank, filter, diversity control, each on the result of
\* the one before; nothing is called for an empty list
RankAndFilter(c, u, strategy, given) ==
  IF c = <<>> THEN c
  ELSE ApplyDiversityControl(
         BusinessFilter(RuleRank(c, Preset(strategy)),
                        GetUserSequence(u, DEFAULT_MAX_LEN), TRUE, TRUE),
         Catalogue, DiversityStrength(strategy, given), TRUE)

RankAndFilterCalls(c) ==
  IF c = <<>> THEN <<>> ELSE <<"rank", "filter", "diversify">>

Strategies == {"default", "quality_focused", "diversity_focused"}
StageOps == {"rank", "filter", "diversify", "rank_and_filter"}
StageLists == {[k \in 1..n |-> <<k, NumItems - k + 1>>] : n \in 0..NumItems}

ApplyStage ==
  LET c == call.c
      u == call.user
      played == GetUserSequence(u, DEFAULT_MAX_LEN)
  IN  /\ call.op \in StageOps /\ ~call.done
      /\ call' =
           [call EXCEPT
              !.done = TRUE,
              !.ret = CASE call.op = "rank" -> RuleRank(c, Preset(call.strategy))
                        [] call.op = "filter" -> BusinessFilter(c, played, TRUE, TRUE)
                        [] call.op = "diversify" ->
                             ApplyDiversityControl(c, Catalogue,
                               DiversityStrength(call.strategy, NoStrength), TRUE)
                        [] OTHER -> RankAndFilter(c, u, call.strategy, NoStrength),
              !.reads = CASE call.op = "rank" -> RankReads(c, u)
                          [] call.op = "filter" -> FilterReads(c, u)
                          [] call.op = "diversify" -> DiversityReads(c)
                          [] OTHER -> 0,
              !.calls = IF call.op = "rank_and_filter"
                        THEN RankAndFilterCalls(c) ELSE <<>>]
      /\ UNCHANGED <<storeVars, req>>

InitStages ==
  /\ seq \in [Users -> InitSeqs]
  /\ recCache = [u \in Users |-> Absent]
  /\ popular = ZEmpty
  /\ dbCount = [u \in Users |-> 0]
  /\ hasEmb = {}
  /\ AnnInit
  /\ RankerInit
  /\ req = [p \in Procs |-> Idle]
  /\ call \in [op : StageOps, c : StageLists, user : Users,
               strategy : Strategies, done : {FALSE}, ret : {<<>>},
               reads : {0}, calls : {<<>>}]

SpecStages == InitStages /\ [][ApplyStage]_vars

\* ------------------------------ FeatureStore.get_dynamic_user_embedding
\* A vector is named by what it was computed from: the user's cached vector,
\* or the fusion of it with the vectors of the sequence items (position in
\* the sequence, item), the fusion weight in tenths and the decay flag.
NoVector == [kind |-> "none", user |-> 0, items |-> <<>>, fusion_weight |-> 0,
             use_time_decay |-> FALSE]
BaseVector(u) == [NoVector EXCEPT !.kind = "base", !.user = u]
FusionRaised == [NoVector EXCEPT !.kind = "raised"]

\* get_batch_item_embeddings keeps the items whose bytes unpickle
ValidEmbeddings(user_sequence) ==
  LET Cached(x) == x[2] \in DOMAIN itemEmb /\ itemEmb[x[2]] # "bad"
  IN  SelectSeq([k \in 1..Len(user_sequence) |-> <<k - 1, user_sequence[k]>>],
                Cached)

\* Variant: a fusion that does not look at the number of interactions.
FuseWithoutThreshold(u, min_interactions, fusion_weight, max_sequence_len, use_time_decay) ==
  LET user_sequence == GetUserSequence(u, max_sequence_len)
      valid == ValidEmbeddings(user_sequence)
  IN  IF u \notin hasEmb THEN NoVector
      ELSE IF valid = <<>> THEN BaseVector(u)
      ELSE IF \E k \in 1..Len(valid) : itemEmb[valid[k][2]] = "dim"
        THEN FusionRaised
      ELSE [kind |-> "fused", user |-> u, items |-> valid,
            fusion_weight |-> fusion_weight, use_time_decay |-> use_time_decay]

\* An item vector of another length than the user's makes the weighted sum
\* raise; get_dynamic_user_embedding has no except clause.
GetDynamicUserEmbedding(u, min_interactions, fusion_weight, max_sequence_len, use_time_decay) ==
  LET user_sequence == GetUserSequence(u, max_sequence_len)
      valid == ValidEmbeddings(user_sequence)
  IN  IF u \notin hasEmb THEN NoVector
      ELSE IF Len(user_sequence) < min_interactions THEN BaseVector(u)
      ELSE IF valid = <<>> THEN BaseVector(u)
      ELSE IF \E k \in 1..Len(valid) : itemEmb[valid[k][2]] = "dim"
        THEN FusionRaised
      ELSE [kind |-> "fused", user |-> u, items |-> valid,
            fusion_weight |-> fusion_weight, use_time_decay |-> use_time_decay]

\* The store reads are HGET, LRANGE and HMGET: nothing is written.
ApplyFusion ==
  /\ call.op = "dynamic_embedding" /\ ~call.done
  /\ call' = [call EXCEPT
                !.done = TRUE,
                !.ret = GetDynamicUserEmbedding(call.user, call.min_interactions,
                          call.fusion_weight, call.max_sequence_len,
                          call.use_time_decay)]
  /\ UNCHANGED <<storeVars, req>>

FusionSeqs == UNION {[1..n -> Items] : n \in 0..MaxSeqLen}
FusionEmbeddings ==
  {<<>>, [i \in {1} |-> "bad"], [i \in {1, 2} |-> "ok"], AllEmbedded,
   [i \in Items |-> "dim"]}
FusionWeights == {1, 5}

InitFusion ==
  /\ seq \in [Users -> FusionSeqs]
  /\ recCache = [u \in Users |-> Absent]
  /\ popular = ZEmpty
  /\ dbCount = [u \in Users |-> 0]
  /\ hasEmb \in SUBSET Users
  /\ itemEmb \in FusionEmbeddings
  /\ ann = NewManager
  /\ disk = NoFiles
  /\ RankerInit
  /\ req = [p \in Procs |-> Idle]
  /\ call \in [op : {"dynamic_embedding"}, user : Users,
               min_interactions : 1..(MaxSeqLen + 1),
               fusion_weight : FusionWeights,
               max_sequence_len : 1..MaxSeqLen,
               use_time_decay : BOOLEAN, done : {FALSE}, ret : {NoVector}]

SpecFusion == InitFusion /\ [][ApplyFusion]_vars

\* ------------------------------------------- requests that run concurrently
\* The handlers of one process interleave at their awaits.  recommend as the
\* event loop runs it: every step of the orchestrator, the ranking one
\* resumption at a time.
RecommendSteps(p) ==
  \/ RecCacheCheck(p)
  \/ RecCount(p)
  \/ RecRecall(p)
  \/ RecRecallSeq(p)
  \/ RecRankWeights(p)
  \/ RecRankScore(p)
  \/ RecFilter(p)
  \/ RecCacheWrite(p)

\* popular_games where the two games with metadata are ahead of the one
\* without
TwoAhead == [i \in Items |-> IF i = 1 THEN 1 ELSE 2]
ConcurrentAlgorithms == {"auto", "popularity"}
ConcurrentStrategies == {"default", "quality_focused"}

InitConcurrent ==
  /\ seq = [u \in Users |-> <<>>]
  /\ recCache = [u \in Users |-> Absent]
  /\ popular = TwoAhead
  /\ dbCount = [u \in Users |-> 0]
  /\ hasEmb = {}
  /\ AnnInit
  /\ RankerInit
  /\ req = [p \in Procs |-> Idle]
  /\ call = NoCall

NextConcurrent ==
  \/ \E p \in Pair, u \in Users, a \in ConcurrentAlgorithms,
         s \in ConcurrentStrategies :
       StartRecommendWith(p, u, MaxTopK, a, s, NoStrength, FALSE)
  \/ \E p \in Pair : RecommendSteps(p)
  \/ \E p \in Pair, u \in Users, i \in Items : StartInteract(p, u, i, FALSE)
  \/ \E p \in Pair : Interact(p)

SpecConcurrent == InitConcurrent /\ [][NextConcurrent]_vars

\* ---------------------------------- the result cache across ranking options
\* Automatic-mode requests of every strategy, with and without a diversity
\* strength, one after the other; nothing invalidates and nothing expires.
GivenStrengths == {NoStrength, 10}

InitCacheKey ==
  /\ seq = [u \in Users |-> <<>>]
  /\ recCache = [u \in Users |-> Absent]
  /\ popular \in {RankedPop, TwoAhead}
  /\ dbCount = [u \in Users |-> 0]
  /\ hasEmb = {}
  /\ AnnInit
  /\ RankerInit
  /\ req = [p \in Procs |-> Idle]
  /\ call = NoCall

NextCacheKey ==
  \/ \E p \in Procs, u \in Users, k \in 1..MaxTopK, s \in Strategies,
         d \in GivenStrengths :
       StartRecommendWith(p, u, k, "auto", s, d, TRUE)
  \/ \E p \in Procs : Recommend(p)

SpecCacheKey == InitCacheKey /\ [][NextCacheKey]_vars

\* What the index answered for a call, and its entries that are not
\* sentinels, are mapped and are not excluded, as (item id, score) pairs.
RawOf(c) ==
  IndexSearch(c.m.index, IF c.exclude_ids # <<>> THEN c.top_k * 2 ELSE c.top_k)
Usable(c, x) ==
  /\ x[1] >= 0 /\ x[1] + 1 \in DOMAIN c.m.index_to_id
  /\ c.m.index_to_id[x[1] + 1] \notin Range(c.exclude_ids)
UsableOf(c) ==
  LET Test(x) == Usable(c, x)
      kept == SelectSeq(RawOf(c), Test)
  IN  [k \in 1..Len(kept) |-> <<c.m.index_to_id[kept[k][1] + 1], kept[k][2]>>]

\* C15: search returns at most topK pairs, none excluded, none from a
\* sentinel or unmapped ordinal, in the order the index returned them, and
\* the empty list when the index is not ready or the search raises.
C15_SearchResult ==
  (call.op = "search_fn" /\ call.done) =>
    /\ Len(call.ret) <= call.top_k
    /\ \A k \in 1..Len(call.ret) : call.ret[k][1] \notin Range(call.exclude_ids)
    /\ (~call.m.index.built \/ ~call.m.index.trained \/ call.raises) =>
         call.ret = <<>>
    /\ (call.m.index.built /\ call.m.index.trained /\ ~call.raises) =>
         call.ret = SubSeq(UsableOf(call), 1,
                           Min(call.top_k, Len(UsableOf(call))))

C15_Witness ==
  /\ call.op = "search_fn" /\ call.done /\ call.ret # <<>>
  /\ \E k \in 1..Len(RawOf(call)) : RawOf(call)[k][1] < 0
  /\ \E k \in 1..Len(RawOf(call)) :
       /\ RawOf(call)[k][1] >= 0
       /\ RawOf(call)[k][1] + 1 \notin DOMAIN call.m.index_to_id
  /\ \E k \in 1..Len(RawOf(call)) :
       /\ RawOf(call)[k][1] + 1 \in DOMAIN call.m.index_to_id
       /\ call.m.index_to_id[RawOf(call)[k][1] + 1] \in Range(call.exclude_ids)


\* C16: with a ready index and a user embedding, recall with its default
\* arguments takes its candidates from the index search, the played items
\* excluded, and not from the legacy path.
C16_UsesIndexSearch ==
  ( /\ call.op = "recall_fn" /\ call.done /\ call.use_dynamic_fusion
    /\ call.user \in hasEmb
    /\ call.before.index.built /\ call.before.index.trained ) =>
    /\ call.path = "faiss"
    /\ call.ret = FaissSearch(call.before, call.top_k,
                              GetUserSequence(call.user, DEFAULT_MAX_LEN),
                              call.raises)

\* C17: when the index is not ready or the index search fails, a user with
\* an embedding gets the result of the legacy path.
C17_FallsBackToLegacy ==
  ( /\ call.op = "recall_fn" /\ call.done
    /\ call.user \in hasEmb
    /\ \E i \in DOMAIN popular : i \in DOMAIN itemEmb
    /\ \/ ~call.ready
       \/ call.raises
       \/ ~ann.index.trained ) =>
    call.ret = call.legacy


\* Positions of a candidate list whose item is in the output, and the number
\* of kept items before position k (of the whole output for k past the end)
\* that have metadata satisfying P.
KeptAt(c, out, k) == c[k] \in Range(out)
Subsequence(c, out) ==
  LET In(x) == x \in Range(out) IN out = SelectSeq2(c, In)
KeptBefore(c, out, meta, k, P(_)) ==
  Cardinality({j \in 1..(k - 1) :
                 KeptAt(c, out, j) /\ meta[c[j][1]].has /\ P(meta[c[j][1]])})
DevCount(out, meta, d) ==
  Cardinality({k \in 1..Len(out) :
                 meta[out[k][1]].has /\ meta[out[k][1]].developer = d})
GenreCount(out, meta, g) ==
  Cardinality({k \in 1..Len(out) :
                 meta[out[k][1]].has /\ g \in meta[out[k][1]].genres})

\* C18: the developer cap keeps an item with metadata exactly when fewer than
\* MAX_SAME_DEVELOPER kept items before it share its developer, keeps every
\* item without metadata, and returns an order-preserving subsequence; every
\* developer occurs at most MAX_SAME_DEVELOPER times in the output and a
\* dropped item has MAX_SAME_DEVELOPER kept items of its developer before it.
C18_DeveloperCap ==
  (call.op = "developer" /\ call.done) =>
    LET c == call.c
        out == call.ret
        meta == call.meta
        Same(k) == LET SameDev(md) == md.developer = meta[c[k][1]].developer
                   IN  KeptBefore(c, out, meta, k, SameDev)
    IN  /\ Subsequence(c, out)
        /\ \A k \in 1..Len(c) :
             /\ KeptAt(c, out, k) <=>
                  (~meta[c[k][1]].has \/ Same(k) < MAX_SAME_DEVELOPER)
             /\ ~KeptAt(c, out, k) => Same(k) = MAX_SAME_DEVELOPER
        /\ \A d \in {"devA", "devB"} : DevCount(out, meta, d) <= MAX_SAME_DEVELOPER

C18_Witness ==
  /\ call.op = "developer" /\ call.done
  /\ \E k \in 1..Len(call.c) : ~KeptAt(call.c, call.ret, k)
  /\ \E k \in 1..Len(call.c) :
       /\ ~call.meta[call.c[k][1]].has
       /\ KeptAt(call.c, call.ret, k)
       /\ \E j \in 1..(k - 1) : ~KeptAt(call.c, call.ret, j)
  /\ DevCount(call.ret, call.meta, "devA") = MAX_SAME_DEVELOPER

\* C19: the genre cap keeps an item exactly when every one of its genres is
\* in fewer than MAX_SAME_GENRE kept items before it; every genre is in at
\* most MAX_SAME_GENRE items of the output.
C19_GenreCap ==
  (call.op = "genre" /\ call.done) =>
    LET c == call.c
        out == call.ret
        meta == call.meta
        With(k, g) == LET HasGenre(md) == g \in md.genres
                      IN  KeptBefore(c, out, meta, k, HasGenre)
    IN  /\ Subsequence(c, out)
        /\ \A k \in 1..Len(c) :
             KeptAt(c, out, k) <=>
               ( \/ ~meta[c[k][1]].has
                 \/ \A g \in meta[c[k][1]].genres : With(k, g) < MAX_SAME_GENRE )
        /\ \A g \in {"g1", "g2"} :
             /\ GenreCount(out, meta, g) <= MAX_SAME_GENRE
             /\ GenreCount(out, meta, g) = With(Len(c) + 1, g)

C19_Witness ==
  /\ call.op = "genre" /\ call.done
  /\ \E k \in 1..Len(call.c) :
       /\ ~KeptAt(call.c, call.ret, k)
       /\ call.meta[call.c[k][1]].genres = {"g1", "g2"}
       /\ GenreCount(call.ret, call.meta, "g2") < MAX_SAME_GENRE
  /\ GenreCount(call.ret, call.meta, "g1") = MAX_SAME_GENRE

\* C20: a stage of the filter that raises passes its input on and the other
\* stages run: the output is a subsequence of the input that satisfies the
\* rule of every stage that succeeded, and every dropped item was dropped by
\* a stage that succeeded.
C20_StagesFailOpen ==
  (call.op = "filter" /\ call.done) =>
    LET c == call.c
        out == call.ret
        meta == call.meta
        ok == call.ok
        pr == call.price_range
        OutOfRange(md) ==
          md.has /\ md.priced /\ ~(pr.min <= md.price /\ md.price <= pr.max)
        Minor(md) == md.has /\ md.mature /\ call.user_age < 18
    IN  /\ Subsequence(c, out)
        /\ ok.played => \A k \in 1..Len(out) : out[k][1] \notin Range(call.played)
        /\ ok.developer =>
             \A d \in {"devA", "devB"} : DevCount(out, meta, d) <= MAX_SAME_DEVELOPER
        /\ ok.genre =>
             \A g \in {"g1", "g2"} : GenreCount(out, meta, g) <= MAX_SAME_GENRE
        /\ (ok.price /\ pr.given) =>
             \A k \in 1..Len(out) : ~OutOfRange(meta[out[k][1]])
        /\ (ok.age /\ call.user_age # 0) =>
             \A k \in 1..Len(out) : ~Minor(meta[out[k][1]])
        /\ \A k \in 1..Len(c) :
             ~KeptAt(c, out, k) =>
               LET md == meta[c[k][1]] IN
               \/ ok.played /\ c[k][1] \in Range(call.played)
               \/ ok.developer /\ md.has
                    /\ DevCount(c, meta, md.developer) > MAX_SAME_DEVELOPER
               \/ ok.genre /\ md.has
                    /\ \E g \in md.genres : GenreCount(c, meta, g) > MAX_SAME_GENRE
               \/ ok.price /\ pr.given /\ OutOfRange(md)
               \/ ok.age /\ call.user_age # 0 /\ Minor(md)

C20_Witness ==
  /\ call.op = "filter" /\ call.done
  /\ ~call.ok["developer"] /\ call.ok["played"] /\ call.ok["genre"]
  /\ call.played = <<1>> /\ Len(call.c) = CapItems
  /\ ~KeptAt(call.c, call.ret, 1)
  /\ DevCount(call.ret, call.meta, "devA") > MAX_SAME_DEVELOPER


\* The window of a list and the developers named in it
WindowOf(c) == SubSeq(c, 1, Min(diversity_window, Len(c)))
DevelopersOf(c, meta) ==
  {meta[c[k][1]].developer : k \in 1..Len(c)} \ {""}
SortedDescending(c) == \A k \in 1..(Len(c) - 1) : c[k][2] >= c[k + 1][2]

\* C21: apply_diversity_control returns a permutation of its input, for
\* every strength and every score, and the items past the window keep their
\* positions.
C21_Permutation ==
  (call.op = "diversify" /\ call.done) =>
    /\ Len(call.ret) = Len(call.c)
    /\ Range(call.ret) = Range(call.c)
    /\ \A k \in (diversity_window + 1)..Len(call.c) :
         k \in DOMAIN call.ret /\ call.ret[k] = call.c[k]

\* C22: with strength 0 a list sorted by descending score is returned in the
\* same order, ties included.
C22_StrengthZeroKeepsOrder ==
  (call.op = "diversify" /\ call.done /\ call.s10 = 0 /\ SortedDescending(call.c))
    => call.ret = call.c

\* C23 as stated: with strength 1 and two developers in the window, no two
\* adjacent window items share a developer.
C23_NoAdjacentDeveloper ==
  ( /\ call.op = "diversify" /\ call.done /\ call.ok /\ call.s10 = 10
    /\ Len(call.c) > diversity_window
    /\ Cardinality(DevelopersOf(WindowOf(call.c), call.meta)) >= 2 ) =>
    \A k \in 1..(diversity_window - 1) :
      \/ call.meta[call.ret[k][1]].developer = ""
      \/ call.meta[call.ret[k][1]].developer
           # call.meta[call.ret[k + 1][1]].developer

\* C23: with strength 1 the window is ordered greedily by diversity alone:
\* every window item after the first has the highest diversity score, against
\* all the items placed before it, of the items not placed before it.
C23_GreedyByDiversity ==
  ( /\ call.op = "diversify" /\ call.done /\ call.ok /\ call.s10 = 10
    /\ Len(call.c) > diversity_window ) =>
    /\ Len(call.ret) = Len(call.c)
    /\ \A k \in 2..diversity_window : \A j \in (k + 1)..diversity_window :
         CalculateDiversityScore(call.ret[k], SubSeq(call.ret, 1, k - 1), call.meta)
           >= CalculateDiversityScore(call.ret[j], SubSeq(call.ret, 1, k - 1),
                                      call.meta)

C23_Witness ==
  /\ call.op = "diversify" /\ call.done /\ call.ok /\ call.s10 = 10
  /\ Len(call.c) > diversity_window
  /\ Cardinality(DevelopersOf(WindowOf(call.c), call.meta)) >= 2
  /\ WindowOf(call.ret) # WindowOf(call.c)
  /\ \E k \in 1..(diversity_window - 1) :
       /\ call.meta[call.ret[k][1]].developer = "devA"
       /\ call.meta[call.ret[k + 1][1]].developer = "devA"

\* C24: a list of at most diversity_window items is returned as it is, for
\* every strength, and no metadata is read.
C24_ShortListUnchanged ==
  (call.op = "diversify" /\ call.done /\ Len(call.c) <= diversity_window) =>
    call.ret = call.c /\ call.reads = 0

C24_Witness ==
  /\ call.op = "diversify" /\ call.done /\ call.ok /\ call.s10 = 10
  /\ Len(call.c) = diversity_window
  /\ Cardinality(DevelopersOf(call.c, call.meta)) >= 2
  /\ call.ret = call.c


\* C25: rank, filter, apply_diversity_control and rank_and_filter answer the
\* empty list with the empty list, without reading the store and without
\* calling a component.
C25_EmptyInEmptyOut ==
  (call.op \in StageOps /\ call.done /\ call.c = <<>>) =>
    call.ret = <<>> /\ call.reads = 0 /\ call.calls = <<>>

C25_Witness ==
  /\ call.op = "rank" /\ call.done /\ call.c = <<>>
  /\ seq[call.user] # <<>> /\ call.ret = <<>>

\* C26: two concurrent recommend requests with different ranking strategies
\* are each ranked with the weight preset of their own strategy: the order
\* a request's ranking produces is the order the ranking of the same
\* candidates produces alone.
C26_Step(p) ==
  (req[p].pc = "rank_score" /\ req'[p].pc = "filter"
     /\ req'[p].fault = req[p].fault) =>
    Ids(req'[p].cands) = Ids(RuleRank(req[p].cands, Preset(req[p].strategy)))

C26_OwnPreset == [][\A p \in Pair : C26_Step(p)]_vars

\* C29: once an automatic-mode recommend and an interaction of the same user
\* have both completed, the user's cached list is absent or does not
\* contain the item of the interaction.
C29_NoPlayedItemCached ==
  \A p \in Pair, q \in Pair :
    (/\ Recommended(p) /\ req[p].algorithm = "auto"
     /\ req[q].kind = "interact" /\ req[q].pc = "done"
     /\ req[q].user = req[p].user /\ NoFault) =>
      \/ ~recCache[req[p].user].has
      \/ req[q].item \notin Range(recCache[req[p].user].ids)

\* C28: when the user's recent sequence has fewer than min_interactions
\* items, or none of its items has a cached embedding,
\* get_dynamic_user_embedding returns the user's cached vector itself; and
\* whatever it returns, the cached user vectors and item vectors are as they
\* were before the call.
C28_Step ==
  LET recent == GetUserSequence(call.user, call.max_sequence_len)
      cold == \/ Len(recent) < call.min_interactions
              \/ ValidEmbeddings(recent) = <<>>
  IN  (call.op = "dynamic_embedding" /\ ~call.done /\ call'.done) =>
        /\ hasEmb' = hasEmb /\ itemEmb' = itemEmb
        /\ (call.user \in hasEmb /\ cold) => call'.ret = BaseVector(call.user)

C28_ColdStartNoOp == [][C28_Step]_vars

C28_Witness ==
  /\ call.op = "dynamic_embedding" /\ call.done
  /\ call.ret = BaseVector(call.user)
  /\ Len(GetUserSequence(call.user, call.max_sequence_len)) < call.min_interactions
  /\ ValidEmbeddings(GetUserSequence(call.user, call.max_sequence_len)) # <<>>

\* The stages of recommend in the order of the orchestrator; the result
\* cache is read first and written last, in the automatic mode only.
StageOrder(algorithm) ==
  (IF UsesCache(algorithm) THEN <<"cache_read">> ELSE <<>>)
    \o <<"count", "recall", "rank", "filter", "diversify">>
    \o (IF UsesCache(algorithm) THEN <<"cache_write">> ELSE <<>>)

\* C27: a recommend that misses the cache and recalls a candidate runs
\* recall, rank, filter and diversify once each and in this order, each on
\* the output of the one before (ranking permutes what was recalled, the
\* answer is drawn from what was ranked), and it writes the result cache,
\* in the automatic mode only, after diversify.
C27_Step(p) ==
  (req'[p] # req[p] /\ req'[p].kind = "recommend") =>
    /\ IsPrefix(req'[p].trace, StageOrder(req'[p].algorithm))
    /\ (req[p].pc \in {"rank", "rank_score"} /\ req'[p].pc = "filter") =>
         Range(Ids(req'[p].cands)) = Range(Ids(req[p].cands))
    /\ req[p].pc = "filter" =>
         /\ Range(req'[p].recs) \subseteq Range(Ids(req[p].cands))
         /\ Range(Ids(req'[p].cands)) \subseteq Range(Ids(req[p].cands))
    /\ req'[p].exit = "final" =>
         req'[p].trace =
           IF UsesCache(req'[p].algorithm) /\ req'[p].recs = <<>>
           THEN SubSeq(StageOrder("auto"), 1, Len(StageOrder("auto")) - 1)
           ELSE StageOrder(req'[p].algorithm)

C27_StagesInOrder == [][\A p \in Procs : C27_Step(p)]_vars

C27_Witness ==
  \E p \in Procs :
    /\ Recommended(p) /\ req[p].algorithm = "auto" /\ req[p].exit = "final"
    /\ req[p].recs # <<>> /\ ~req[p].fault
    /\ req[p].trace = StageOrder("auto")
    /\ recCache[req[p].user] = Present(req[p].recs)

\* What recommend computes for a request on a cache miss, from the store as
\* it is.
Recomputed(r) ==
  Ids(PySlice(
        RankAndFilter(PopularityRecall(GetPopularGames(RECALL_SIZE * 2),
                                       GetUserSequence(r.user, DEFAULT_MAX_LEN),
                                       RECALL_SIZE),
                      r.user, r.strategy, r.diversity_strength),
        r.topK))

\* C30: the result cache is keyed by the user alone.  After an
\* automatic-mode request has cached its list, a later automatic-mode
\* request of the same user, with nothing invalidated in between, is a cache
\* hit whatever its ranking strategy and diversity strength, and returns the
\* first topK ids of the stored list.
C30_KeyedByUser ==
  \A p \in Procs, q \in Procs :
    (/\ p < q /\ Recommended(p) /\ Recommended(q) /\ NoFault
     /\ req[p].user = req[q].user
     /\ req[p].exit = "final" /\ req[p].recs # <<>>) =>
      /\ req[q].exit = "hit" /\ req[q].from_cache
      /\ recCache[req[q].user] = Present(req[p].recs)
      /\ req[q].recs = PySlice(req[p].recs, req[q].topK)

C30_Witness ==
  \E p \in Procs, q \in Procs :
    /\ p < q /\ Recommended(p) /\ Recommended(q) /\ NoFault
    /\ req[p].exit = "final" /\ req[p].strategy = "default"
    /\ req[q].strategy = "quality_focused" /\ req[q].topK = req[p].topK
    /\ req[q].exit = "hit" /\ req[q].recs = req[p].recs
    /\ req[q].recs # Recomputed(req[q])

====
